---- MODULE Spec2Model ----
(***************************************************************************)
(* Model of the serialization / validation core of highcharts-core:        *)
(*   highcharts/annotations/points.py          AnnotationPoint             *)
(*   highcharts/accessibility/screen_reader_section.py ScreenReaderSection *)
(*   highcharts/series/data/bar.py             BarData, WindBarbData, ...  *)
(*   highcharts/series/bar.py                  BaseBarSeries, ...          *)
(*                                                                         *)
(* One entity is alive at a time (ent).  Every operation records its name  *)
(* (op), its inputs (kw, val, raw), its outcome (res: returned normally or *)
(* raised), the entity before the call (prev), the dictionary object the   *)
(* caller passed after the call (as_dict) and the last export (out).       *)
(***************************************************************************)
EXTENDS Integers, Sequences, FiniteSets, TLC

VARIABLES ent, prev, op, kw, val, raw, res, as_dict, out, heap, owner, touch

\* the variables of the entity under construction, assignment and export
evars == <<ent, prev, op, kw, val, raw, res, as_dict, out>>

\* the variables of the point instances held by reference
svars == <<heap, owner, touch>>

vars == <<ent, prev, op, kw, val, raw, res, as_dict, out, heap, owner, touch>>

(***************************************************************************)
(* Bounds of the model.                                                    *)
(***************************************************************************)
\* largest number of keys in a keyword map / external dictionary input
MaxKeys == 2
\* longest raw data collection drawn exhaustively
MaxData == 2
\* longest sequence element (tuple) of a raw data collection
MaxTuple == 5
\* most point instances built before they are assigned to a series
MaxPoints == 2

(***************************************************************************)
(* Python values.  Every value is a record of the same shape:              *)
(*   t  the type, n  the number (int), s  the text (str),                  *)
(*   k  the key set (dict).                                                *)
(***************************************************************************)
None         == [t |-> "None",         n |-> 0, s |-> "", k |-> {}]
EnforcedNull == [t |-> "EnforcedNull", n |-> 0, s |-> "", k |-> {}]
PyInt(i)       == [t |-> "int",      n |-> i, s |-> "", k |-> {}]
PyStr(x)       == [t |-> "str",      n |-> 0, s |-> x,  k |-> {}]
PyBool(b)      == [t |-> "bool",     n |-> IF b THEN 1 ELSE 0, s |-> "", k |-> {}]
PyDict(keys)   == [t |-> "dict",     n |-> 0, s |-> "", k |-> keys]
PyList       == [t |-> "list",     n |-> 1, s |-> "", k |-> {}]
Gradient     == [t |-> "Gradient", n |-> 0, s |-> "", k |-> {}]
Pattern      == [t |-> "Pattern",  n |-> 0, s |-> "", k |-> {}]
PartialFillOptions == [t |-> "PartialFillOptions", n |-> 0, s |-> "", k |-> {}]

\* Python truthiness: "not value" is true of None, 0, '', False, {} and [].
Truthy(v) ==
    CASE v.t = "None" -> FALSE
      [] v.t = "int"  -> v.n # 0
      [] v.t = "bool" -> v.n # 0
      [] v.t = "str"  -> v.s # ""
      [] v.t = "dict" -> v.k # {}
      [] v.t = "list" -> v.n # 0
      [] OTHER        -> TRUE

\* the text of the strings that read as a number, with the number they read as
NumericStrings == [s \in {"1", "5"} |-> IF s = "1" THEN 1 ELSE 5]

(***************************************************************************)
(* Outcome of a call: returned v, or raised the error e.                   *)
(***************************************************************************)
\* via: the decoder a union field went through ("" when there is none)
OkVia(v, via) == [ok |-> TRUE,  v |-> v,    e |-> "", via |-> via]
Ok(v)         == OkVia(v, "")
Err(e)        == [ok |-> FALSE, v |-> None, e |-> e,  via |-> ""]

(***************************************************************************)
(* Validators (validator_collection), as the spec's section 4.1 states     *)
(* them: a typed value, None for an empty input when allow_empty, or an    *)
(* error.  No side effects.                                                *)
(***************************************************************************)
IsEmpty(v) == v = None \/ v = PyStr("")

validators_string(v, allow_empty) ==
    IF IsEmpty(v) THEN (IF allow_empty THEN Ok(None) ELSE Err("ValueError"))
    ELSE IF v.t = "str" THEN Ok(v)
    ELSE Err("ValueError")

validators_numeric(v, allow_empty, has_minimum, minimum) ==
    IF IsEmpty(v) THEN (IF allow_empty THEN Ok(None) ELSE Err("ValueError"))
    ELSE LET num == IF v.t = "int" THEN Ok(v)
                    ELSE IF v.t = "str" /\ v.s \in DOMAIN NumericStrings
                         THEN Ok(PyInt(NumericStrings[v.s]))
                    ELSE Err("ValueError")
         IN  IF num.ok /\ has_minimum /\ num.v.n < minimum
             THEN Err("ValueError") ELSE num

validators_integer(v) == validators_numeric(v, FALSE, FALSE, 0)

(***************************************************************************)
(* Dictionaries and keyword maps: functions from the keys present.         *)
(***************************************************************************)
EmptyMap == [key \in {} |-> None]

\* dict.pop(key, default): the value popped
Pop(d, key, default) == IF key \in DOMAIN d THEN d[key] ELSE default

\* the dictionary left after popping every key of keys
Popped(d, keys) == [key \in (DOMAIN d) \ keys |-> d[key]]

\* the maps with at most MaxKeys keys, each key's value among choices[key]
MapsOver(choices) ==
    UNION { { m \in [D -> UNION {choices[c] : c \in DOMAIN choices}] :
                \A key \in D : m[key] \in choices[key] } :
            D \in {S \in SUBSET (DOMAIN choices) : Cardinality(S) <= MaxKeys} }

(***************************************************************************)
(* HighchartsMeta.trim_dict, as the spec's section 4.3 states it: a key is *)
(* omitted iff its value is unset (None); the forced-default sentinel      *)
(* (EnforcedNull) and every concrete value are kept.                       *)
(***************************************************************************)
trim_dict(untrimmed) ==
    [key \in {j \in DOMAIN untrimmed : untrimmed[j] # None} |-> untrimmed[key]]

(***************************************************************************)
(* Entities: cls the class, f the private fields (_x, _x_axis, ...).       *)
(***************************************************************************)
NoEntity == [cls |-> "none", f |-> EmptyMap]

Made(obj)  == [ok |-> TRUE,  obj |-> obj,      e |-> ""]
Raised(e)  == [ok |-> FALSE, obj |-> NoEntity, e |-> e]

Range(q) == {q[i] : i \in DOMAIN q}

\* the first name of order whose setter raised
FirstBad(order, r) ==
    order[CHOOSE i \in DOMAIN order :
              /\ ~r[order[i]].ok
              /\ \A j \in 1..(i - 1) : r[order[j]].ok]

\* the object whose fields the setters' outcomes r fill, or the error of the
\* first setter, in order, that raised
Construct(cls, order, r) ==
    IF \A field \in DOMAIN r : r[field].ok
    THEN Made([cls |-> cls, f |-> [field \in DOMAIN r |-> r[field].v]])
    ELSE Raised(r[FirstBad(order, r)].e)

(***************************************************************************)
(* AnnotationPoint                                                         *)
(***************************************************************************)
\* a faulty variant of the x setter: the value is stored as it was passed
AnnotationPoint_x_setter_unvalidated(value) == Ok(value)

AnnotationPoint_x_setter(value) == validators_numeric(value, TRUE, FALSE, 0)

AnnotationPoint_y_setter(value) == validators_numeric(value, TRUE, FALSE, 0)

\* a faulty variant of the x_axis setter: the string is tried before the
\* integer
AnnotationPoint_x_axis_setter_string_first(value) ==
    IF value = None \/ value = PyStr("") THEN Ok(None)
    ELSE LET asStr == validators_string(value, FALSE)
         IN  IF asStr.ok THEN asStr
             ELSE LET asInt == validators_integer(value)
                  IN  IF asInt.ok THEN asInt ELSE Err("HighchartsValueError")

AnnotationPoint_x_axis_setter(value) ==
    IF value = None \/ value = PyStr("") THEN Ok(None)
    ELSE LET asInt == validators_integer(value)
         IN  IF asInt.ok THEN asInt
             ELSE LET asStr == validators_string(value, FALSE)
                  IN  IF asStr.ok THEN asStr ELSE Err("HighchartsValueError")

AnnotationPoint_y_axis_setter(value) ==
    IF value = None \/ value = PyStr("") THEN Ok(None)
    ELSE LET asInt == validators_integer(value)
         IN  IF asInt.ok THEN asInt
             ELSE LET asStr == validators_string(value, FALSE)
                  IN  IF asStr.ok THEN asStr ELSE Err("HighchartsValueError")

AnnotationPoint_Fields == <<"x", "x_axis", "y", "y_axis">>

AnnotationPoint_setter(field, value) ==
    CASE field = "x"      -> AnnotationPoint_x_setter(value)
      [] field = "x_axis" -> AnnotationPoint_x_axis_setter(value)
      [] field = "y"      -> AnnotationPoint_y_setter(value)
      [] field = "y_axis" -> AnnotationPoint_y_axis_setter(value)

\* __init__(**kwargs): each field is set, in order, from kwargs.pop(name,
\* None); a key of kwargs that names no field stays in kwargs and is never
\* looked at.  The first setter that raises ends the construction.
AnnotationPoint_init(kwargs) ==
    Construct("AnnotationPoint", AnnotationPoint_Fields,
        [field \in Range(AnnotationPoint_Fields) |->
             AnnotationPoint_setter(field, Pop(kwargs, field, None))])

\* the keyword map from_dict builds by popping the external keys
AnnotationPoint_kwargs_from_dict(d) ==
    [x      |-> Pop(d, "x", None),
     x_axis |-> Pop(d, "xAxis", None),
     y      |-> Pop(d, "y", None),
     y_axis |-> Pop(d, "yAxis", None)]

AnnotationPoint_ExternalKeys == {"x", "xAxis", "y", "yAxis"}

AnnotationPoint_from_dict(d) ==
    AnnotationPoint_init(AnnotationPoint_kwargs_from_dict(d))

AnnotationPoint_to_dict(self) ==
    [x     |-> self.f["x"],
     xAxis |-> self.f["x_axis"],
     y     |-> self.f["y"],
     yAxis |-> self.f["y_axis"]]

(***************************************************************************)
(* ScreenReaderSection                                                     *)
(***************************************************************************)
\* constants.DEFAULT_AFTER_CHART_FORMAT and its siblings: non-empty strings
DEFAULT_AFTER_CHART_FORMAT     == PyStr("DEFAULT_AFTER_CHART_FORMAT")
DEFAULT_AXIS_RANGE_DATE_FORMAT == PyStr("DEFAULT_AXIS_RANGE_DATE_FORMAT")
DEFAULT_BEFORE_CHART_FORMAT    == PyStr("DEFAULT_BEFORE_CHART_FORMAT")

\* a faulty variant of the after_chart_format setter: every falsy value
\* stores None
ScreenReaderSection_after_chart_format_setter_falsy_none(value) ==
    IF ~Truthy(value) THEN Ok(None)
    ELSE validators_string(value, FALSE)

ScreenReaderSection_after_chart_format_setter(value) ==
    IF value = None THEN Ok(None)
    ELSE IF ~Truthy(value) THEN Ok(PyStr(""))
    ELSE validators_string(value, FALSE)

ScreenReaderSection_before_chart_format_setter(value) ==
    IF value = None THEN Ok(None)
    ELSE IF ~Truthy(value) THEN Ok(PyStr(""))
    ELSE validators_string(value, FALSE)

\* after_chart_formatter, axis_range_date_format, before_chart_formatter,
\* on_play_as_sound_click, on_view_data_table_click
ScreenReaderSection_string_setter(value) == validators_string(value, TRUE)

ScreenReaderSection_Fields ==
    <<"after_chart_format", "after_chart_formatter", "axis_range_date_format",
      "before_chart_format", "before_chart_formatter",
      "on_play_as_sound_click", "on_view_data_table_click">>

ScreenReaderSection_setter(field, value) ==
    CASE field = "after_chart_format"
             -> ScreenReaderSection_after_chart_format_setter(value)
      [] field = "before_chart_format"
             -> ScreenReaderSection_before_chart_format_setter(value)
      [] OTHER -> ScreenReaderSection_string_setter(value)

\* the default __init__ passes to kwargs.pop for each keyword
ScreenReaderSection_init_default ==
    [after_chart_format       |-> DEFAULT_AFTER_CHART_FORMAT,
     after_chart_formatter    |-> None,
     axis_range_date_format   |-> DEFAULT_AXIS_RANGE_DATE_FORMAT,
     before_chart_format      |-> DEFAULT_BEFORE_CHART_FORMAT,
     before_chart_formatter   |-> None,
     on_play_as_sound_click   |-> None,
     on_view_data_table_click |-> None]

ScreenReaderSection_init(kwargs) ==
    Construct("ScreenReaderSection", ScreenReaderSection_Fields,
        [field \in Range(ScreenReaderSection_Fields) |->
             ScreenReaderSection_setter(
                 field,
                 Pop(kwargs, field, ScreenReaderSection_init_default[field]))])

\* a faulty variant of from_dict's kwargs: an absent 'afterChartFormat' is
\* passed on as None instead of the schema default
ScreenReaderSection_kwargs_from_dict_no_default(d) ==
    [after_chart_format       |-> Pop(d, "afterChartFormat", None),
     after_chart_formatter    |-> Pop(d, "afterChartFormatter", None),
     axis_range_date_format   |-> Pop(d, "axisRangeDateFormat",
                                      DEFAULT_AXIS_RANGE_DATE_FORMAT),
     before_chart_format      |-> Pop(d, "beforeChartFormat",
                                      DEFAULT_BEFORE_CHART_FORMAT),
     before_chart_formatter   |-> Pop(d, "beforeChartFormatter", None),
     on_play_as_sound_click   |-> Pop(d, "onPlayAsSoundClick", None),
     on_view_data_table_click |-> Pop(d, "onViewDataTableClick", None)]

ScreenReaderSection_kwargs_from_dict(d) ==
    [after_chart_format       |-> Pop(d, "afterChartFormat",
                                      DEFAULT_AFTER_CHART_FORMAT),
     after_chart_formatter    |-> Pop(d, "afterChartFormatter", None),
     axis_range_date_format   |-> Pop(d, "axisRangeDateFormat",
                                      DEFAULT_AXIS_RANGE_DATE_FORMAT),
     before_chart_format      |-> Pop(d, "beforeChartFormat",
                                      DEFAULT_BEFORE_CHART_FORMAT),
     before_chart_formatter   |-> Pop(d, "beforeChartFormatter", None),
     on_play_as_sound_click   |-> Pop(d, "onPlayAsSoundClick", None),
     on_view_data_table_click |-> Pop(d, "onViewDataTableClick", None)]

ScreenReaderSection_ExternalKeys ==
    {"afterChartFormat", "afterChartFormatter", "axisRangeDateFormat",
     "beforeChartFormat", "beforeChartFormatter", "onPlayAsSoundClick",
     "onViewDataTableClick"}

ScreenReaderSection_from_dict(d) ==
    ScreenReaderSection_init(ScreenReaderSection_kwargs_from_dict(d))

ScreenReaderSection_to_json(self) ==
    trim_dict(
        [afterChartFormat     |-> self.f["after_chart_format"],
         afterChartFormatter  |-> self.f["after_chart_formatter"],
         axisRangeDateFormat  |-> self.f["axis_range_date_format"],
         beforeChartFormat    |-> self.f["before_chart_format"],
         beforeChartFormatter |-> self.f["before_chart_formatter"],
         onPlayAsSoundClick   |-> self.f["on_play_as_sound_click"],
         onViewDataTableClick |-> self.f["on_view_data_table_click"]])

(***************************************************************************)
(* Gradient and Pattern (highcharts.utility_classes), as the spec's        *)
(* section 4.2 states their decoders: from_json decodes the external form  *)
(* from JSON text and raises ValueError for anything that is no JSON text; *)
(* from_dict decodes an external-form dictionary; the constructor takes    *)
(* the internal-form keywords.                                             *)
(***************************************************************************)
\* the strings of the model that are JSON text
JSONStrings == {"{'linearGradient': {}}", "{'patternOptions': {}}"}

\* the strings of the model that hold the text sub
StringsContaining(sub) ==
    CASE sub = "linearGradient" -> {"{'linearGradient': {}}", "linearGradient(0)"}
      [] sub = "patternOptions" -> {"{'patternOptions': {}}", "patternOptions(0)"}
      [] OTHER                  -> {}

\* Python's  sub in value  for a dict (a key) or a str (a substring)
Contains(value, sub) ==
    \/ value.t = "dict" /\ sub \in value.k
    \/ value.t = "str"  /\ value.s \in StringsContaining(sub)

Gradient_from_json(value) ==
    IF value.t = "str" /\ value.s \in JSONStrings
    THEN OkVia(Gradient, "Gradient.from_json") ELSE Err("ValueError")

Gradient_from_dict(value) == OkVia(Gradient, "Gradient.from_dict")

Gradient_init(value) == OkVia(Gradient, "Gradient.__init__")

Pattern_from_json(value) ==
    IF value.t = "str" /\ value.s \in JSONStrings
    THEN OkVia(Pattern, "Pattern.from_json") ELSE Err("ValueError")

Pattern_from_dict(value) == OkVia(Pattern, "Pattern.from_dict")

Pattern_init(value) == OkVia(Pattern, "Pattern.__init__")

(***************************************************************************)
(* CartesianData (highcharts.series.data.cartesian), the parent of the     *)
(* point types: of its fields the model keeps x, y and name.               *)
(***************************************************************************)
\* checkers.is_numeric
is_numeric(value) ==
    \/ value.t = "int"
    \/ value.t = "str" /\ value.s \in DOMAIN NumericStrings

CartesianData_x_setter(value) ==
    IF value = None THEN Ok(None)
    ELSE IF is_numeric(value) THEN validators_numeric(value, FALSE, FALSE, 0)
    ELSE validators_string(value, FALSE)

CartesianData_y_setter(value) == validators_numeric(value, TRUE, FALSE, 0)

CartesianData_name_setter(value) == validators_string(value, TRUE)

CartesianData_Fields == <<"x", "y", "name">>

CartesianData_to_dict(self) ==
    trim_dict([x |-> self.f["x"], y |-> self.f["y"], name |-> self.f["name"]])

\* a faulty variant of the merge: on a collision the own value is kept
MergeParent_own_kept(untrimmed, parent_as_dict) == untrimmed @@ parent_as_dict

\* for key in parent_as_dict: untrimmed[key] = parent_as_dict[key]  (the
\* loop of every point type's to_dict)
MergeParent(untrimmed, parent_as_dict) == parent_as_dict @@ untrimmed

(***************************************************************************)
(* BarData                                                                 *)
(***************************************************************************)
\* a faulty variant of the border_color setter: the internal key of a
\* variant is tested before its external key
BarData_border_color_setter_internal_first(value) ==
    IF ~Truthy(value) THEN Ok(None)
    ELSE IF value.t \in {"Gradient", "Pattern"} THEN Ok(value)
    ELSE IF value.t = "dict" /\ Contains(value, "linear_gradient")
    THEN Gradient_init(value)
    ELSE IF value.t \in {"dict", "str"} /\ Contains(value, "linearGradient")
    THEN LET j == Gradient_from_json(value)
         IN  IF j.ok THEN j
             ELSE IF value.t = "dict" THEN Gradient_from_dict(value)
             ELSE validators_string(value, FALSE)
    ELSE IF value.t = "dict" /\ Contains(value, "pattern_options")
    THEN Pattern_init(value)
    ELSE IF value.t \in {"dict", "str"} /\ Contains(value, "patternOptions")
    THEN LET j == Pattern_from_json(value)
         IN  IF j.ok THEN j
             ELSE IF value.t = "dict" THEN Pattern_from_dict(value)
             ELSE validators_string(value, FALSE)
    ELSE Err("HighchartsValueError")

BarData_border_color_setter(value) ==
    IF ~Truthy(value) THEN Ok(None)
    ELSE IF value.t \in {"Gradient", "Pattern"} THEN Ok(value)
    ELSE IF value.t \in {"dict", "str"} /\ Contains(value, "linearGradient")
    THEN LET j == Gradient_from_json(value)
         IN  IF j.ok THEN j
             ELSE IF value.t = "dict" THEN Gradient_from_dict(value)
             ELSE validators_string(value, FALSE)
    ELSE IF value.t = "dict" /\ Contains(value, "linear_gradient")
    THEN Gradient_init(value)
    ELSE IF value.t \in {"dict", "str"} /\ Contains(value, "patternOptions")
    THEN LET j == Pattern_from_json(value)
         IN  IF j.ok THEN j
             ELSE IF value.t = "dict" THEN Pattern_from_dict(value)
             ELSE validators_string(value, FALSE)
    ELSE IF value.t = "dict" /\ Contains(value, "pattern_options")
    THEN Pattern_init(value)
    ELSE Err("HighchartsValueError")

\* a faulty variant of the border_width setter: no minimum is given
BarData_border_width_setter_no_minimum(value) ==
    validators_numeric(value, TRUE, FALSE, 0)

BarData_border_width_setter(value) == validators_numeric(value, TRUE, TRUE, 0)

\* constants.SUPPORTED_DASH_STYLE_VALUES, as the docstring of dash_style
\* lists them
SUPPORTED_DASH_STYLE_VALUES ==
    {"Dash", "DashDot", "Dot", "LongDash", "LongDashDot", "LongDashDotDot",
     "ShortDash", "ShortDashDot", "ShortDashDotDot", "ShortDot", "Solid"}

\* a faulty variant of the dash_style setter: an unrecognized value is
\* replaced by None instead of raising
BarData_dash_style_setter_lenient(value) ==
    IF ~Truthy(value) THEN Ok(None)
    ELSE LET str == validators_string(value, FALSE)
         IN  IF ~str.ok \/ str.v.s \notin SUPPORTED_DASH_STYLE_VALUES
             THEN Ok(None)
             ELSE str

\* a faulty variant of the dash_style setter: the string is stored without
\* the membership test
BarData_dash_style_setter_any_string(value) ==
    IF ~Truthy(value) THEN Ok(None)
    ELSE validators_string(value, FALSE)

BarData_dash_style_setter(value) ==
    IF ~Truthy(value) THEN Ok(None)
    ELSE LET str == validators_string(value, FALSE)
         IN  IF ~str.ok THEN str
             ELSE IF str.v.s \notin SUPPORTED_DASH_STYLE_VALUES
             THEN Err("HighchartsValueError")
             ELSE str

BarData_point_width_setter(value) == validators_numeric(value, TRUE, FALSE, 0)

\* the order in which __init__ sets the fields: the own ones, then the
\* parent's through super().__init__(**kwargs)
BarData_Fields ==
    <<"border_color", "border_width", "dash_style", "point_width">>
    \o CartesianData_Fields

BarData_setter(field, value) ==
    CASE field = "border_color" -> BarData_border_color_setter(value)
      [] field = "border_width" -> BarData_border_width_setter(value)
      [] field = "dash_style"   -> BarData_dash_style_setter(value)
      [] field = "point_width"  -> BarData_point_width_setter(value)
      [] field = "x"            -> CartesianData_x_setter(value)
      [] field = "y"            -> CartesianData_y_setter(value)
      [] field = "name"         -> CartesianData_name_setter(value)

BarData_init(kwargs) ==
    Construct("BarData", BarData_Fields,
        [field \in Range(BarData_Fields) |->
             BarData_setter(field, Pop(kwargs, field, None))])

BarData_get_kwargs_from_dict(d) ==
    [name         |-> Pop(d, "name", None),
     x            |-> Pop(d, "x", None),
     y            |-> Pop(d, "y", None),
     border_color |-> Pop(d, "borderColor", None),
     border_width |-> Pop(d, "borderWidth", None),
     dash_style   |-> Pop(d, "dashStyle", None),
     point_width  |-> Pop(d, "pointWidth", None)]

BarData_from_dict(d) == BarData_init(BarData_get_kwargs_from_dict(d))

BarData_to_dict(self) ==
    LET untrimmed == [borderColor |-> self.f["border_color"],
                  borderWidth |-> self.f["border_width"],
                  dashStyle   |-> self.f["dash_style"],
                  pointWidth  |-> self.f["point_width"]]
    parent_as_dict == CartesianData_to_dict(self)
    IN  trim_dict(MergeParent(untrimmed, parent_as_dict))

(***************************************************************************)
(* Raw data collections.  An element is a point instance (obj), a          *)
(* dictionary (d), a sequence of values (q) or a single value (v: None,    *)
(* EnforcedNull, a number, a string).  A collection is a list of elements  *)
(* (items), or one element that is no list (single).                       *)
(***************************************************************************)
ElemObj(o)  == [kind |-> "obj",  obj |-> o,        d |-> EmptyMap, q |-> <<>>, v |-> None]
ElemDict(d) == [kind |-> "dict", obj |-> NoEntity, d |-> d,        q |-> <<>>, v |-> None]
ElemSeq(q)  == [kind |-> "seq",  obj |-> NoEntity, d |-> EmptyMap, q |-> q,    v |-> None]
ElemVal(v)  == [kind |-> "val",  obj |-> NoEntity, d |-> EmptyMap, q |-> <<>>, v |-> v]

RawList(items) == [single |-> FALSE, items |-> items]
RawSingle(e)   == [single |-> TRUE,  items |-> <<e>>]

\* Python's  not value  for a raw collection
RawFalsy(value) ==
    IF ~value.single THEN value.items = <<>>
    ELSE LET e == value.items[1]
     IN  \/ e.kind = "val"  /\ ~Truthy(e.v)
         \/ e.kind = "dict" /\ DOMAIN e.d = {}
         \/ e.kind = "seq"  /\ e.q = <<>>

\* checkers.is_iterable: lists, tuples and dictionaries; not strings, numbers
\* or point instances
is_iterable(e) == e.kind \in {"seq", "dict"}

\* a sequence holding the members of the set S, each once
RECURSIVE SeqOfSet(_)
SeqOfSet(S) ==
    IF S = {} THEN <<>>
    ELSE LET x == CHOOSE x \in S : TRUE IN <<x>> \o SeqOfSet(S \ {x})

\* the elements  for item in value  visits, after  value = [value]  for a
\* value that is not iterable
RawItems(value) ==
    IF ~value.single THEN value.items
    ELSE LET e == value.items[1]
     IN  IF e.kind = "seq" THEN [i \in DOMAIN e.q |-> ElemVal(e.q[i])]
         ELSE IF e.kind = "dict"
         THEN LET keys == SeqOfSet(DOMAIN e.d)
              IN  [i \in DOMAIN keys |-> ElemVal(PyStr(keys[i]))]
         ELSE <<e>>

\* the outcome of from_setter: the collection built, or the error raised
Built(items) == [ok |-> TRUE,  items |-> items, e |-> ""]
Failed(e)    == [ok |-> FALSE, items |-> <<>>,  e |-> e]

\* the slot a from_setter fills with None instead of a point
NoneSlot == [cls |-> "NoneType", f |-> EmptyMap]

\* for item in value: collection.append(as_obj), the first error ending it
Collect(r) ==
    IF \A i \in DOMAIN r : r[i].ok
    THEN Built([i \in DOMAIN r |-> r[i].obj])
    ELSE Failed(r[CHOOSE i \in DOMAIN r :
                  ~r[i].ok /\ \A j \in 1..(i - 1) : r[j].ok].e)

(***************************************************************************)
(* WindBarbData                                                            *)
(***************************************************************************)
WindBarbData_direction_setter(value) == validators_numeric(value, TRUE, FALSE, 0)

WindBarbData_value_setter(value_) == validators_numeric(value_, TRUE, FALSE, 0)

WindBarbData_Fields == <<"direction", "value">> \o CartesianData_Fields

WindBarbData_setter(field, value) ==
    CASE field = "direction" -> WindBarbData_direction_setter(value)
      [] field = "value"     -> WindBarbData_value_setter(value)
      [] field = "x"         -> CartesianData_x_setter(value)
      [] field = "y"         -> CartesianData_y_setter(value)
      [] field = "name"      -> CartesianData_name_setter(value)

WindBarbData_init(kwargs) ==
    Construct("WindBarbData", WindBarbData_Fields,
        [field \in Range(WindBarbData_Fields) |->
             WindBarbData_setter(field, Pop(kwargs, field, None))])

WindBarbData_get_kwargs_from_dict(d) ==
    [name      |-> Pop(d, "name", None),
     x         |-> Pop(d, "x", None),
     y         |-> Pop(d, "y", None),
     direction |-> Pop(d, "direction", None),
     value     |-> Pop(d, "value", None)]

WindBarbData_from_dict(d) ==
    WindBarbData_init(WindBarbData_get_kwargs_from_dict(d))

\* a faulty variant of the loop body: value and direction change places
WindBarbData_from_setter_item_swapped(item) ==
    IF item.kind = "obj" /\ item.obj.cls = "WindBarbData" THEN Made(item.obj)
    ELSE IF item.kind = "dict" THEN WindBarbData_from_dict(item.d)
    ELSE IF item.kind = "val" /\ item.v \in {None, EnforcedNull}
    THEN WindBarbData_init([x |-> None, value |-> None,
                            direction |-> None, y |-> None])
    ELSE IF is_iterable(item)
    THEN IF Len(item.q) \notin {3, 4} THEN Raised("HighchartsValueError")
         ELSE WindBarbData_from_dict(
                  IF Len(item.q) = 4
                  THEN [x         |-> item.q[1],
                        value     |-> item.q[3],
                        direction |-> item.q[2],
                        y         |-> item.q[4]]
                  ELSE [x         |-> item.q[1],
                        value     |-> item.q[3],
                        direction |-> item.q[2]])
    ELSE Raised("HighchartsValueError")

\* the body of from_setter's loop for one item
WindBarbData_from_setter_item(item) ==
    IF item.kind = "obj" /\ item.obj.cls = "WindBarbData" THEN Made(item.obj)
    ELSE IF item.kind = "dict" THEN WindBarbData_from_dict(item.d)
    ELSE IF item.kind = "val" /\ item.v \in {None, EnforcedNull}
    THEN WindBarbData_init([x |-> None, value |-> None,
                            direction |-> None, y |-> None])
    ELSE IF is_iterable(item)
    THEN IF Len(item.q) \notin {3, 4} THEN Raised("HighchartsValueError")
         ELSE WindBarbData_from_dict(
                  IF Len(item.q) = 4
                  THEN [x         |-> item.q[1],
                        value     |-> item.q[2],
                        direction |-> item.q[3],
                        y         |-> item.q[4]]
                  ELSE [x         |-> item.q[1],
                        value     |-> item.q[2],
                        direction |-> item.q[3]])
    ELSE Raised("HighchartsValueError")

WindBarbData_from_setter(value) ==
    IF RawFalsy(value) THEN Built(<<>>)
    ELSE LET items == RawItems(value)
         IN  Collect([i \in DOMAIN items |->
                         WindBarbData_from_setter_item(items[i])])

WindBarbData_to_dict(self) ==
    LET untrimmed == [direction |-> self.f["direction"],
                      value     |-> self.f["value"]]
        parent_as_dict == CartesianData_to_dict(self)
    IN  trim_dict(MergeParent(untrimmed, parent_as_dict))

(***************************************************************************)
(* XRangeData                                                              *)
(***************************************************************************)
\* @class_sensitive(PartialFillOptions): None, an instance, or a dictionary
\* decoded into an instance
XRangeData_partial_fill_setter(value) ==
    IF ~Truthy(value) THEN Ok(None)
    ELSE IF value.t \in {"PartialFillOptions", "dict"} THEN Ok(PartialFillOptions)
    ELSE Err("HighchartsValueError")

\* a datetime.datetime and a datetime.date: s the day, n the hour
PyDatetime(day, hour) == [t |-> "datetime", n |-> hour, s |-> day, k |-> {}]
PyDate(day)           == [t |-> "date",     n |-> 0,    s |-> day, k |-> {}]

\* checkers.is_datetime and checkers.is_date: a datetime is a date as well
\* (datetime.datetime is a subclass of datetime.date)
is_datetime(value) == value.t = "datetime"

is_date(value) == value.t \in {"date", "datetime"}

\* validators.datetime and validators.date: the value of the type asked
\* for; a datetime given for a date is cut to its day
validators_datetime(value) ==
    IF value.t = "datetime" THEN Ok(value)
    ELSE IF value.t = "date" THEN Ok(PyDatetime(value.s, 0))
    ELSE Err("ValueError")

validators_date(value) ==
    IF value.t = "date" THEN Ok(value)
    ELSE IF value.t = "datetime" THEN Ok(PyDate(value.s))
    ELSE Err("ValueError")

\* a faulty variant of the x setter: every falsy value stores None
XRangeData_x_setter_falsy_none(value) ==
    IF ~Truthy(value) THEN Ok(None)
    ELSE IF is_datetime(value) THEN validators_datetime(value)
    ELSE IF is_date(value) THEN validators_date(value)
    ELSE IF is_numeric(value) THEN validators_numeric(value, FALSE, FALSE, 0)
    ELSE validators_string(value, FALSE)

XRangeData_x_setter(value) ==
    IF value = None THEN Ok(None)
    ELSE IF is_datetime(value) THEN validators_datetime(value)
    ELSE IF is_date(value) THEN validators_date(value)
    ELSE IF is_numeric(value) THEN validators_numeric(value, FALSE, FALSE, 0)
    ELSE validators_string(value, FALSE)

XRangeData_x2_setter(value) ==
    IF value = None THEN Ok(None)
    ELSE IF is_datetime(value) THEN validators_datetime(value)
    ELSE IF is_date(value) THEN validators_date(value)
    ELSE IF is_numeric(value) THEN validators_numeric(value, FALSE, FALSE, 0)
    ELSE validators_string(value, FALSE)

XRangeData_Fields == <<"partial_fill", "x2">> \o CartesianData_Fields

XRangeData_setter(field, value) ==
    CASE field = "partial_fill" -> XRangeData_partial_fill_setter(value)
      [] field = "x2"           -> XRangeData_x2_setter(value)
      [] field = "x"            -> XRangeData_x_setter(value)
      [] field = "y"            -> CartesianData_y_setter(value)
      [] field = "name"         -> CartesianData_name_setter(value)

XRangeData_init(kwargs) ==
    Construct("XRangeData", XRangeData_Fields,
        [field \in Range(XRangeData_Fields) |->
             XRangeData_setter(field, Pop(kwargs, field, None))])

XRangeData_get_kwargs_from_dict(d) ==
    [name         |-> Pop(d, "name", None),
     x            |-> Pop(d, "x", None),
     y            |-> Pop(d, "y", None),
     partial_fill |-> Pop(d, "partialFill", None),
     x2           |-> Pop(d, "x2", None)]

XRangeData_from_dict(d) == XRangeData_init(XRangeData_get_kwargs_from_dict(d))

\* a faulty variant of the loop body: a bare scalar is taken as the point's x
XRangeData_from_setter_item_scalar(item) ==
    IF item.kind = "obj" /\ item.obj.cls = "XRangeData" THEN Made(item.obj)
    ELSE IF item.kind = "dict" THEN XRangeData_from_dict(item.d)
    ELSE IF item.kind = "val" /\ item.v \in {None, EnforcedNull}
    THEN Made(NoneSlot)
    ELSE IF item.kind = "val" THEN XRangeData_init([x |-> item.v])
    ELSE Raised("HighchartsValueError")

\* a faulty variant of the loop body: a sequence of two values is taken as
\* the point's (x, x2)
XRangeData_from_setter_item_pairs(item) ==
    IF item.kind = "obj" /\ item.obj.cls = "XRangeData" THEN Made(item.obj)
    ELSE IF item.kind = "dict" THEN XRangeData_from_dict(item.d)
    ELSE IF item.kind = "val" /\ item.v \in {None, EnforcedNull}
    THEN Made(NoneSlot)
    ELSE IF item.kind = "seq" /\ Len(item.q) = 2
    THEN XRangeData_init([x |-> item.q[1], x2 |-> item.q[2]])
    ELSE Raised("HighchartsValueError")

\* the body of from_setter's loop for one item
XRangeData_from_setter_item(item) ==
    IF item.kind = "obj" /\ item.obj.cls = "XRangeData" THEN Made(item.obj)
    ELSE IF item.kind = "dict" THEN XRangeData_from_dict(item.d)
    ELSE IF item.kind = "val" /\ item.v \in {None, EnforcedNull}
    THEN Made(NoneSlot)
    ELSE Raised("HighchartsValueError")

\* whether the element is a null marker
IsNullElement(e) == e.kind = "val" /\ e.v \in {None, EnforcedNull}

\* the elements of items that are no null markers, in order
RECURSIVE WithoutNulls(_)
WithoutNulls(items) ==
    IF items = <<>> THEN <<>>
    ELSE IF IsNullElement(Head(items)) THEN WithoutNulls(Tail(items))
    ELSE <<Head(items)>> \o WithoutNulls(Tail(items))

\* a faulty variant of from_setter: null elements are skipped
XRangeData_from_setter_skipping(value) ==
    IF RawFalsy(value) THEN Built(<<>>)
    ELSE LET items == WithoutNulls(RawItems(value))
         IN  Collect([i \in DOMAIN items |->
                         XRangeData_from_setter_item(items[i])])

XRangeData_from_setter(value) ==
    IF RawFalsy(value) THEN Built(<<>>)
    ELSE LET items == RawItems(value)
         IN  Collect([i \in DOMAIN items |->
                         XRangeData_from_setter_item(items[i])])

XRangeData_to_dict(self) ==
    LET untrimmed == [partialFill |-> self.f["partial_fill"],
                      x2          |-> self.f["x2"]]
        parent_as_dict == CartesianData_to_dict(self)
    IN  trim_dict(MergeParent(untrimmed, parent_as_dict))

(***************************************************************************)
(* WaterfallData (CartesianData): the sum flags is_intermediate_sum and    *)
(* is_sum, each None or a bool.                                            *)
(***************************************************************************)
\* a faulty variant of the is_sum setter: every falsy value stores None
WaterfallData_is_sum_setter_falsy_none(value) ==
    IF ~Truthy(value) THEN Ok(None) ELSE Ok(PyBool(TRUE))

\* bool(value) unless value is None
WaterfallData_is_sum_setter(value) ==
    IF value = None THEN Ok(None) ELSE Ok(PyBool(Truthy(value)))

WaterfallData_is_intermediate_sum_setter(value) ==
    IF value = None THEN Ok(None) ELSE Ok(PyBool(Truthy(value)))

WaterfallData_Fields == <<"is_intermediate_sum", "is_sum">> \o CartesianData_Fields

WaterfallData_setter(field, value) ==
    CASE field = "is_intermediate_sum" -> WaterfallData_is_intermediate_sum_setter(value)
      [] field = "is_sum"              -> WaterfallData_is_sum_setter(value)
      [] field = "x"                   -> CartesianData_x_setter(value)
      [] field = "y"                   -> CartesianData_y_setter(value)
      [] field = "name"                -> CartesianData_name_setter(value)

WaterfallData_init(kwargs) ==
    Construct("WaterfallData", WaterfallData_Fields,
        [field \in Range(WaterfallData_Fields) |->
             WaterfallData_setter(field, Pop(kwargs, field, None))])

WaterfallData_to_dict(self) ==
    trim_dict(MergeParent([isIntermediateSum |-> self.f["is_intermediate_sum"],
                           isSum             |-> self.f["is_sum"]],
                          CartesianData_to_dict(self)))

(***************************************************************************)
(* CartesianData.from_setter, which BarData inherits, as the spec's        *)
(* section 4.5 states collection coercion: per element, in order,          *)
(*   1 an instance is kept, 2 a dictionary is decoded, 3 a null marker     *)
(*   gives the empty point, 4 a sequence of length 2 is (x, y) and any     *)
(*   other length is an error, 5 a bare scalar is y, 6 anything else is    *)
(*   an error;                                                             *)
(* then every element that received no x (a dictionary without x, a bare   *)
(* scalar) gets x = start + i * interval, i its position from 0.           *)
(***************************************************************************)
DEFAULT_POINT_START    == 0
DEFAULT_POINT_INTERVAL == 1

BarData_from_setter_item(item) ==
    IF item.kind = "obj" /\ item.obj.cls = "BarData" THEN Made(item.obj)
    ELSE IF item.kind = "dict" THEN BarData_from_dict(item.d)
    ELSE IF item.kind = "val" /\ item.v \in {None, EnforcedNull}
    THEN BarData_init([x |-> None, y |-> None])
    ELSE IF item.kind = "seq"
    THEN IF Len(item.q) = 2
         THEN BarData_from_dict([x |-> item.q[1], y |-> item.q[2]])
         ELSE Raised("HighchartsValueError")
    ELSE IF item.kind = "val" THEN BarData_init([y |-> item.v])
    ELSE Raised("HighchartsValueError")

\* whether the element is one that brings no x of its own
NoExplicitX(item) ==
    \/ item.kind = "dict" /\ "x" \notin DOMAIN item.d
    \/ item.kind = "val"  /\ item.v \notin {None, EnforcedNull}

\* the post-pass over the collection built from items
assign_x(items, built, start, interval) ==
    IF ~built.ok THEN built
    ELSE Built([i \in DOMAIN items |->
                   IF NoExplicitX(items[i])
                   THEN [built.items[i] EXCEPT
                            !.f["x"] = PyInt(start + (i - 1) * interval)]
                   ELSE built.items[i]])

\* each element of items coerced, in order
Coerced(items) ==
    Collect([i \in DOMAIN items |-> BarData_from_setter_item(items[i])])

coerce_collection(value, start, interval) ==
    IF RawFalsy(value) THEN Built(<<>>)
    ELSE assign_x(RawItems(value), Coerced(RawItems(value)), start, interval)

\* from_setter(cls, value) takes the collection only: start and interval
\* are the defaults
BarData_from_setter(value) ==
    coerce_collection(value, DEFAULT_POINT_START, DEFAULT_POINT_INTERVAL)

(***************************************************************************)
(* The bar series: BarSeries (BaseBarSeries' data, of BarData),            *)
(* WindBarbSeries and XRangeSeries.  Of the option fields they inherit     *)
(* from SeriesBase and the plot options the model keeps point_start,       *)
(* point_interval, point_range and line_width, and fill_opacity for the    *)
(* five options of the area family (fill_color, fill_opacity, line_color,  *)
(* negative_fill_color, track_by_area), which every decoder lists together *)
(* or not at all.                                                          *)
(***************************************************************************)
SeriesClasses == {"BarSeries", "WindBarbSeries", "XRangeSeries"}

\* the value of the data field: None, or the list of points
DataList(items) == [t |-> "data", items |-> items]

from_setter(cls, value) ==
    CASE cls = "BarSeries"      -> BarData_from_setter(value)
      [] cls = "WindBarbSeries" -> WindBarbData_from_setter(value)
      [] cls = "XRangeSeries"   -> XRangeData_from_setter(value)

\* the data setter of BaseBarSeries, WindBarbSeries and XRangeSeries
\* the outcome of a data setter from the outcome of from_setter
Assignable(built) ==
    IF built.ok
    THEN [ok |-> TRUE, v |-> DataList(built.items), e |-> "", via |-> ""]
    ELSE Err(built.e)

Series_data_setter(cls, value) ==
    IF RawFalsy(value) THEN [ok |-> TRUE, v |-> None, e |-> "", via |-> ""]
    ELSE Assignable(from_setter(cls, value))

\* the option setters (SeriesBase, BaseBarOptions), as the spec's sections
\* 4.1 and 4.6 state them
Series_point_start_setter(value) == validators_numeric(value, TRUE, FALSE, 0)

Series_point_interval_setter(value) == validators_numeric(value, TRUE, TRUE, 0)

Series_line_width_setter(value) == validators_numeric(value, TRUE, TRUE, 0)

Series_fill_opacity_setter(value) == validators_numeric(value, TRUE, TRUE, 0)

Series_point_range_setter(value) ==
    IF value = EnforcedNull THEN Ok(EnforcedNull)
    ELSE validators_numeric(value, TRUE, TRUE, 0)

Series_OptionFields ==
    <<"point_start", "point_interval", "point_range", "line_width",
      "fill_opacity">>

Series_Fields == Series_OptionFields \o <<"data">>

Series_option_setter(field, value) ==
    CASE field = "point_start"    -> Series_point_start_setter(value)
      [] field = "point_interval" -> Series_point_interval_setter(value)
      [] field = "point_range"    -> Series_point_range_setter(value)
      [] field = "line_width"     -> Series_line_width_setter(value)
      [] field = "fill_opacity"   -> Series_fill_opacity_setter(value)

\* mro_init(self, kwargs), as the spec's section 4.4 states it: every
\* declared field of every parent is set through its setter from
\* kwargs.pop(name, None).  data is the value of the 'data' keyword.
mro_init(cls, kwargs, data) ==
    Construct(cls, Series_Fields,
        [field \in Range(Series_Fields) |->
             IF field = "data" THEN Series_data_setter(cls, data)
             ELSE Series_option_setter(field, Pop(kwargs, field, None))])

\* the defaults _get_kwargs_from_dict passes to as_dict.pop
\* a faulty variant of BaseBarSeries' kwargs: an absent 'pointRange' is
\* passed on as None
BaseBarSeries_get_kwargs_from_dict_unset(d) ==
    [fill_opacity   |-> Pop(d, "fillOpacity", None),
     line_width     |-> Pop(d, "lineWidth", None),
     point_interval |-> Pop(d, "pointInterval", None),
     point_start    |-> Pop(d, "pointStart", None),
     point_range    |-> Pop(d, "pointRange", None)]

BaseBarSeries_get_kwargs_from_dict(d) ==
    [fill_opacity   |-> Pop(d, "fillOpacity", None),
     line_width     |-> Pop(d, "lineWidth", None),
     point_interval |-> Pop(d, "pointInterval", None),
     point_start    |-> Pop(d, "pointStart", None),
     point_range    |-> Pop(d, "pointRange", EnforcedNull)]

\* a faulty variant of WindBarbSeries' kwargs: an absent 'lineWidth' takes
\* the parent's default
WindBarbSeries_get_kwargs_from_dict_parent_default(d) ==
    [line_width     |-> Pop(d, "lineWidth", None),
     point_interval |-> Pop(d, "pointInterval", PyInt(1)),
     point_start    |-> Pop(d, "pointStart", PyInt(0)),
     point_range    |-> Pop(d, "pointRange", EnforcedNull)]

WindBarbSeries_get_kwargs_from_dict(d) ==
    [line_width     |-> Pop(d, "lineWidth", PyInt(2)),
     point_interval |-> Pop(d, "pointInterval", PyInt(1)),
     point_start    |-> Pop(d, "pointStart", PyInt(0)),
     point_range    |-> Pop(d, "pointRange", EnforcedNull)]

XRangeSeries_get_kwargs_from_dict(d) ==
    [fill_opacity   |-> Pop(d, "fillOpacity", None),
     line_width     |-> Pop(d, "lineWidth", None),
     point_interval |-> Pop(d, "pointInterval", None),
     point_start    |-> Pop(d, "pointStart", None),
     point_range    |-> Pop(d, "pointRange", EnforcedNull)]

Series_get_kwargs_from_dict(cls, d) ==
    CASE cls = "BarSeries"      -> BaseBarSeries_get_kwargs_from_dict(d)
      [] cls = "WindBarbSeries" -> WindBarbSeries_get_kwargs_from_dict(d)
      [] cls = "XRangeSeries"   -> XRangeSeries_get_kwargs_from_dict(d)

Series_ExternalKeys == {"lineWidth", "pointInterval", "pointStart", "pointRange"}

\* the keys of the area family
AreaKeys == {"fillOpacity"}

\* the keys cls._get_kwargs_from_dict pops from as_dict
Series_RecognizedKeys(cls) ==
    IF cls = "WindBarbSeries" THEN Series_ExternalKeys
    ELSE Series_ExternalKeys \cup AreaKeys

\* HighchartsMeta.from_dict: cls(**cls._get_kwargs_from_dict(as_dict)); data
\* is the value of the 'data' key
Series_from_dict(cls, d, data) ==
    mro_init(cls, Series_get_kwargs_from_dict(cls, d), data)

\* mro_to_dict(self) and trim_dict: the options by their external keys (the
\* points of data are exported by their own to_dict)
Series_to_dict(self) ==
    trim_dict([fillOpacity   |-> self.f["fill_opacity"],
               lineWidth     |-> self.f["line_width"],
               pointInterval |-> self.f["point_interval"],
               pointStart    |-> self.f["point_start"],
               pointRange    |-> self.f["point_range"]])

(***************************************************************************)
(* DependencyWheelSeries (SeriesBase, DependencyWheelOptions): its own     *)
(* field nodes, data (of WeightedConnectionData) and, of the options it    *)
(* inherits, start_angle.                                                  *)
(***************************************************************************)
DependencyWheelNodeOptions ==
    [t |-> "DependencyWheelNodeOptions", n |-> 0, s |-> "", k |-> {}]

\* a list of n DependencyWheelNodeOptions instances
NodeList(n) == [t |-> "nodes", n |-> n, s |-> "", k |-> {}]

\* @class_sensitive(DependencyWheelNodeOptions, force_iterable = True): None
\* stays None, an instance or a dictionary becomes a list of one instance,
\* a list of them stays a list of instances, anything else is refused
DependencyWheelSeries_nodes_setter(value) ==
    IF ~Truthy(value) THEN Ok(None)
    ELSE IF value.t \in {"DependencyWheelNodeOptions", "dict"} THEN Ok(NodeList(1))
    ELSE IF value.t = "nodes" THEN Ok(value)
    ELSE Err("HighchartsValueError")

DependencyWheelSeries_start_angle_setter(value) ==
    validators_numeric(value, TRUE, FALSE, 0)

WeightedConnectionData_Fields == <<"from_", "to", "weight">>

WeightedConnectionData_setter(field, value) ==
    IF field = "weight" THEN validators_numeric(value, TRUE, FALSE, 0)
    ELSE validators_string(value, TRUE)

WeightedConnectionData_init(kwargs) ==
    Construct("WeightedConnectionData", WeightedConnectionData_Fields,
        [field \in Range(WeightedConnectionData_Fields) |->
             WeightedConnectionData_setter(field, Pop(kwargs, field, None))])

WeightedConnectionData_from_dict(d) ==
    WeightedConnectionData_init([from_  |-> Pop(d, "from", None),
                                 to     |-> Pop(d, "to", None),
                                 weight |-> Pop(d, "weight", None)])

\* collection coercion of one element, as the spec's section 4.5 states it
WeightedConnectionData_from_setter_item(item) ==
    IF item.kind = "obj" /\ item.obj.cls = "WeightedConnectionData"
    THEN Made(item.obj)
    ELSE IF item.kind = "dict" THEN WeightedConnectionData_from_dict(item.d)
    ELSE IF item.kind = "val" /\ item.v \in {None, EnforcedNull}
    THEN WeightedConnectionData_init(EmptyMap)
    ELSE IF item.kind = "val" THEN WeightedConnectionData_init([weight |-> item.v])
    ELSE Raised("HighchartsValueError")

WeightedConnectionData_from_setter(value) ==
    IF RawFalsy(value) THEN Built(<<>>)
    ELSE LET items == RawItems(value)
         IN  Collect([i \in DOMAIN items |->
                         WeightedConnectionData_from_setter_item(items[i])])

\* a faulty variant of the data setter: only None resets data, and an empty
\* collection is stored as the empty list from_setter returns for it
DependencyWheelSeries_data_setter_keeping_empty(value) ==
    IF value = RawSingle(ElemVal(None))
    THEN [ok |-> TRUE, v |-> None, e |-> "", via |-> ""]
    ELSE Assignable(WeightedConnectionData_from_setter(value))

DependencyWheelSeries_data_setter(value) ==
    IF RawFalsy(value) THEN [ok |-> TRUE, v |-> None, e |-> "", via |-> ""]
    ELSE Assignable(WeightedConnectionData_from_setter(value))

DependencyWheelSeries_Fields == <<"nodes", "data", "start_angle">>

\* __init__: nodes is set from kwargs.pop('nodes', None), then
\* self.__mro_init__(kwargs) sets the inherited fields.  No file of src/
\* defines __mro_init__; provided tells whether a parent class does (it is
\* then the multi-parent initialisation), and the call raises AttributeError
\* when none does.
DependencyWheelSeries_init(kwargs, data, provided) ==
    IF DependencyWheelSeries_nodes_setter(Pop(kwargs, "nodes", None)).ok /\ ~provided
    THEN Raised("AttributeError")
    ELSE Construct("DependencyWheelSeries", DependencyWheelSeries_Fields,
             [field \in Range(DependencyWheelSeries_Fields) |->
                  CASE field = "nodes" ->
                           DependencyWheelSeries_nodes_setter(Pop(kwargs, "nodes", None))
                    [] field = "data" -> DependencyWheelSeries_data_setter(data)
                    [] field = "start_angle" ->
                           DependencyWheelSeries_start_angle_setter(
                               Pop(kwargs, "start_angle", None))])

\* mro_to_dict(self): the inherited options by their external keys
DependencyWheelSeries_mro_to_dict(self) ==
    [startAngle |-> self.f["start_angle"]]

\* untrimmed = mro_to_dict(self); untrimmed['nodes'] = self.nodes
DependencyWheelSeries_to_untrimmed_dict(self) ==
    [nodes |-> self.f["nodes"]] @@ DependencyWheelSeries_mro_to_dict(self)

\* HighchartsMeta.to_dict: trim_dict(self._to_untrimmed_dict())
DependencyWheelSeries_to_dict(self) ==
    trim_dict(DependencyWheelSeries_to_untrimmed_dict(self))

\* the keywords and the collections the wheel series is given
DependencyWheelSeries_Inputs ==
    [nodes       |-> {None, PyDict({"id"}), DependencyWheelNodeOptions,
                      NodeList(2), PyInt(3)},
     start_angle |-> {None, PyInt(90), PyStr("abc")}]

DependencyWheelSeries_KwInputs == MapsOver(DependencyWheelSeries_Inputs)

AConnection ==
    [cls |-> "WeightedConnectionData",
     f |-> [from_ |-> PyStr("A"), to |-> PyStr("B"), weight |-> PyInt(1)]]

DependencyWheelSeries_DataInputs ==
    {RawSingle(ElemVal(None)), RawList(<<>>), RawSingle(ElemVal(PyInt(0))),
     RawSingle(ElemVal(PyStr(""))),
     RawList(<<ElemObj(AConnection)>>),
     RawList(<<ElemVal(None),
               ElemDict([from |-> PyStr("A"), to |-> PyStr("B")])>>),
     RawList(<<ElemSeq(<<PyInt(1)>>)>>)}

(***************************************************************************)
(* Inputs                                                                  *)
(***************************************************************************)
NumInputs  == {None, PyInt(0), PyInt(2), PyStr("5"), PyStr("abc")}
AxisInputs == {None, PyStr(""), PyInt(1), PyStr("1"), PyStr("axis-id"), PyList}

AnnotationPoint_Inputs ==
    [x |-> NumInputs, x_axis |-> AxisInputs, y |-> NumInputs, y_axis |-> AxisInputs]

AnnotationPoint_DictInputs ==
    [x |-> NumInputs, xAxis |-> AxisInputs, y |-> NumInputs, yAxis |-> AxisInputs]

FormatInputs    == {None, PyStr(""), PyInt(0), PyStr("<p>fmt</p>"), PyList}
FormatterInputs == {None, PyStr("function(chart){}"), PyList}

ScreenReaderSection_Inputs ==
    [after_chart_format       |-> FormatInputs,
     after_chart_formatter    |-> FormatterInputs,
     axis_range_date_format   |-> FormatterInputs,
     before_chart_format      |-> FormatInputs,
     before_chart_formatter   |-> FormatterInputs,
     on_play_as_sound_click   |-> FormatterInputs,
     on_view_data_table_click |-> FormatterInputs]

ScreenReaderSection_DictInputs ==
    [afterChartFormat     |-> FormatInputs,
     afterChartFormatter  |-> FormatterInputs,
     axisRangeDateFormat  |-> FormatterInputs,
     beforeChartFormat    |-> FormatInputs,
     beforeChartFormatter |-> FormatterInputs,
     onPlayAsSoundClick   |-> FormatterInputs,
     onViewDataTableClick |-> FormatterInputs]

\* a keyword, and an external key, that no class declares
UnknownInputs == [unknown_key |-> {PyInt(1)}]

ColorInputs ==
    {None, PyStr(""), PyStr("#ffffff"),
     PyStr("{'linearGradient': {}}"), PyStr("linearGradient(0)"),
     PyStr("{'patternOptions': {}}"), PyStr("patternOptions(0)"),
     PyDict({"linearGradient"}), PyDict({"linear_gradient"}),
     PyDict({"patternOptions"}), PyDict({"pattern_options"}),
     PyDict({"linearGradient", "linear_gradient"}),
     PyDict({"patternOptions", "pattern_options"}),
     PyDict({"stops"}), PyDict({}), Gradient, Pattern, PyInt(3)}

BarData_Inputs ==
    [border_color |-> ColorInputs,
     border_width |-> {None, PyInt(0), PyInt(2), PyInt(-1), PyStr("abc")},
     dash_style   |-> {None, PyStr(""), PyStr("Dash"), PyStr("Solid"),
                       PyStr("Wavy"), PyInt(3)},
     point_width  |-> {None, PyInt(4), PyStr("abc")},
     x            |-> {None, PyInt(1), PyStr("A")},
     y            |-> {None, PyInt(5), PyStr("abc")},
     name         |-> {None, PyStr("n")}]

\* positions of a range point: None, the falsy number 0, a number, a
\* numeric string, a datetime, a date, a category and a value of no
\* position type
XRangeData_Inputs ==
    [x  |-> {None, PyInt(0), PyInt(5), PyStr("1"), PyDatetime("2024-01-01", 12),
             PyDate("2024-01-01"), PyStr("A"), PyDict({"a"})},
     x2 |-> {None, PyInt(0), PyDatetime("2024-01-01", 12), PyStr("A"), PyList}]

\* values assigned to the sum flags: None, the two booleans, and falsy and
\* truthy values of other types
WaterfallData_Inputs ==
    [is_sum              |-> {None, PyBool(TRUE), PyBool(FALSE), PyInt(0), PyInt(2),
                              PyStr(""), PyStr("no"), PyDict({})},
     is_intermediate_sum |-> {None, PyBool(TRUE), PyBool(FALSE), PyInt(0)}]

Series_Inputs ==
    [point_start    |-> {None, PyInt(5), PyStr("abc")},
     point_interval |-> {None, PyInt(2), PyInt(-1)},
     fill_opacity   |-> {PyInt(1)}]

Series_DictInputs ==
    [pointStart    |-> {PyInt(5)},
     pointInterval |-> {PyInt(2)},
     pointRange    |-> {None, PyInt(1)},
     lineWidth     |-> {None, PyInt(3)},
     fillOpacity   |-> {PyInt(1)}]

\* the sequences over S of length at most n
RECURSIVE SeqsUpTo(_, _)
SeqsUpTo(S, n) ==
    IF n = 0 THEN {<<>>}
    ELSE LET shorter == SeqsUpTo(S, n - 1)
         IN  shorter \cup {Append(q, x) : q \in shorter, x \in S}

\* the tuple of length n: x, then numbers
TupleOf(n) == [i \in 1..n |-> IF i = 1 THEN PyStr("2022-01-01") ELSE PyInt(i)]

\* a point of each type, built beforehand
APoint(cls) ==
    CASE cls = "BarData"      -> BarData_init([x |-> PyInt(1), y |-> PyInt(5)]).obj
      [] cls = "WindBarbData" ->
             WindBarbData_init([x |-> PyInt(1), value |-> PyInt(3),
                                direction |-> PyInt(90)]).obj
      [] cls = "XRangeData"   ->
             XRangeData_init([x |-> PyInt(1), x2 |-> PyInt(2)]).obj

PointClass(cls) ==
    CASE cls = "BarSeries"      -> "BarData"
      [] cls = "WindBarbSeries" -> "WindBarbData"
      [] cls = "XRangeSeries"   -> "XRangeData"

\* the elements the collections of a series are drawn from exhaustively
Elements(cls) ==
    CASE cls = "BarSeries" ->
             {ElemVal(None), ElemVal(PyInt(5)),
              ElemSeq(<<PyStr("A"), PyInt(0)>>), ElemDict([y |-> PyInt(3)])}
      [] cls = "WindBarbSeries" ->
             {ElemVal(None), ElemSeq(TupleOf(3)), ElemSeq(TupleOf(4)),
              ElemDict([x |-> PyInt(1), value |-> PyInt(3)])}
      [] cls = "XRangeSeries" ->
             {ElemVal(None), ElemVal(EnforcedNull), ElemVal(PyInt(5)),
              ElemDict([x |-> PyInt(1), x2 |-> PyInt(2)])}

\* further collections, each a case of its own
Examples(cls) ==
    {RawSingle(ElemVal(None)), RawSingle(ElemVal(PyInt(0))),
     RawSingle(ElemVal(PyStr(""))), RawSingle(ElemVal(PyInt(5))),
     RawSingle(ElemObj(APoint(PointClass(cls)))),
     RawList(<<ElemObj(APoint(PointClass(cls))), ElemVal(EnforcedNull)>>),
     RawList(<<ElemObj(APoint("BarData")), ElemObj(APoint("XRangeData"))>>),
     RawList(<<ElemVal(PyInt(0)), ElemVal(PyInt(5)),
               ElemVal(PyInt(3)), ElemVal(PyInt(5))>>),
     RawList(<<ElemSeq(<<PyStr("A"), PyInt(0)>>), ElemSeq(<<PyStr("B"), PyInt(5)>>)>>),
     RawList(<<ElemDict([x |-> PyInt(7), y |-> PyInt(3)]), ElemDict([y |-> PyInt(3)])>>),
     RawList(<<ElemSeq(TupleOf(3)), ElemSeq(<<PyInt(1), PyStr("abc"), PyInt(90)>>)>>)}
    \cup {RawList(<<ElemSeq(TupleOf(n))>>) : n \in 0..MaxTuple}

RawInputs ==
    [cls \in SeriesClasses |->
        {RawList(q) : q \in SeqsUpTo(Elements(cls), MaxData)} \cup Examples(cls)]

\* the keyword maps and the external dictionaries the constructors are given
AnnotationPoint_KwInputs   == MapsOver(AnnotationPoint_Inputs @@ UnknownInputs)
AnnotationPoint_DictMaps   == MapsOver(AnnotationPoint_DictInputs @@ UnknownInputs)
ScreenReaderSection_KwInputs == MapsOver(ScreenReaderSection_Inputs @@ UnknownInputs)
ScreenReaderSection_DictMaps == MapsOver(ScreenReaderSection_DictInputs @@ UnknownInputs)
BarData_KwInputs           == MapsOver(BarData_Inputs)
Series_KwInputs            == MapsOver(Series_Inputs)
Series_DictMaps            == MapsOver(Series_DictInputs @@ UnknownInputs)

\* the collections a series that holds data is assigned: the falsy ones, one
\* that its from_setter takes and one that it refuses
Alternatives ==
    [cls \in SeriesClasses |->
    {RawSingle(ElemVal(None)), RawList(<<>>), RawSingle(ElemVal(PyInt(0))),
     RawSingle(ElemVal(PyStr(""))),
     RawList(<<ElemObj(APoint(PointClass(cls)))>>),
     RawList(<<ElemSeq(TupleOf(1))>>)}]

\* what an operation that takes no such input leaves in its place
NoRaw == RawList(<<>>)
Returned == [ok |-> TRUE,  e |-> "", via |-> ""]
Threw(e) == [ok |-> FALSE, e |-> e,  via |-> ""]
Op(name, field) == [name |-> name, field |-> field]

\* the external keys a point type's _get_kwargs_from_dict pops
PointKeys(cls) ==
    CASE cls = "BarSeries" ->
             {"name", "x", "y", "borderColor", "borderWidth", "dashStyle",
              "pointWidth"}
      [] cls = "WindBarbSeries" -> {"name", "x", "y", "direction", "value"}
      [] cls = "XRangeSeries"   -> {"name", "x", "y", "partialFill", "x2"}

\* the list a from_setter that returned leaves behind: each dictionary
\* element went through from_dict, which popped its keys
Consumed(cls, value) ==
    IF value.single THEN value
    ELSE RawList([i \in DOMAIN value.items |->
                     IF value.items[i].kind = "dict"
                     THEN ElemDict(Popped(value.items[i].d, PointKeys(cls)))
                     ELSE value.items[i]])

(***************************************************************************)
(* Dispatch on the class of the entity                                     *)
(***************************************************************************)
IsSeries(e) == e.cls \in SeriesClasses

Point_to_dict(p) ==
    CASE p.cls = "BarData"      -> BarData_to_dict(p)
      [] p.cls = "WindBarbData" -> WindBarbData_to_dict(p)
      [] p.cls = "XRangeData"   -> XRangeData_to_dict(p)

\* the exported data of a series, as the collection its dictionaries form
ExportedData(self) ==
    IF self.f["data"] = None THEN RawSingle(ElemVal(None))
    ELSE LET items == self.f["data"].items
         IN  RawList([i \in DOMAIN items |->
                         IF items[i] = NoneSlot THEN ElemVal(None)
                         ELSE ElemDict(Point_to_dict(items[i]))])

to_dict(self) ==
    CASE self.cls = "AnnotationPoint"     -> AnnotationPoint_to_dict(self)
      [] self.cls = "ScreenReaderSection" -> ScreenReaderSection_to_json(self)
      [] self.cls = "BarData"             -> BarData_to_dict(self)
      [] self.cls = "XRangeData"          -> XRangeData_to_dict(self)
      [] self.cls = "WaterfallData"       -> WaterfallData_to_dict(self)
      [] IsSeries(self)                   -> Series_to_dict(self)
      [] self.cls = "DependencyWheelSeries" -> DependencyWheelSeries_to_dict(self)

from_dict(cls, d, data) ==
    CASE cls = "AnnotationPoint"     -> AnnotationPoint_from_dict(d)
      [] cls = "ScreenReaderSection" -> ScreenReaderSection_from_dict(d)
      [] cls = "BarData"             -> BarData_from_dict(d)
      [] cls \in SeriesClasses       -> Series_from_dict(cls, d, data)

(***************************************************************************)
(* Point instances held by reference.  heap is the sequence of the point   *)
(* instances built so far; owner gives, for each of two series, its class  *)
(* and its data as the list of the heap positions its slots refer to (the  *)
(* empty list while data is None); touch records the last call on them and *)
(* what each series' data read as before it.                               *)
(***************************************************************************)
SeriesNames == {"a", "b"}

DataClasses == {"WindBarbSeries", "XRangeSeries"}

NoOwner == [s \in SeriesNames |-> [cls |-> "none", data |-> <<>>]]

\* the kwargs the pre-built points are constructed from
PointKwInputs(cls) ==
    IF cls = "WindBarbData"
    THEN {EmptyMap, [value |-> PyInt(3), direction |-> PyInt(90)]}
    ELSE {EmptyMap, [x |-> PyInt(1), x2 |-> PyInt(2)]}

\* the values assigned to the fields of a point reached through a series
PointFieldInputs(cls) ==
    IF cls = "WindBarbData"
    THEN [value |-> {PyInt(7), PyStr("abc")}]
    ELSE [x |-> {PyInt(7)}, partial_fill |-> {PyInt(3)}]

Point_init(cls, kwargs) ==
    IF cls = "WindBarbData" THEN WindBarbData_init(kwargs)
    ELSE XRangeData_init(kwargs)

Point_setter(cls, field, value) ==
    IF cls = "WindBarbData" THEN WindBarbData_setter(field, value)
    ELSE XRangeData_setter(field, value)

\* series.data as it reads: the instances its slots refer to
View(s) == [i \in DOMAIN owner[s].data |-> heap[owner[s].data[i]]]

Views == [s \in SeriesNames |-> View(s)]

NoTouch == [name |-> "", series |-> "", ok |-> TRUE, before |-> <<>>]

Touch(name, s, ok) ==
    [name |-> name, series |-> s, ok |-> ok, before |-> Views]

(***************************************************************************)
(* The state machine                                                       *)
(***************************************************************************)
Init ==
    /\ ent = NoEntity
    /\ prev = NoEntity
    /\ op = Op("", "")
    /\ kw = EmptyMap
    /\ val = None
    /\ raw = NoRaw
    /\ res = Returned
    /\ as_dict = EmptyMap
    /\ out = EmptyMap
    /\ heap = <<>>
    /\ owner = NoOwner
    /\ touch = NoTouch

\* a constructor call: the entity exists afterwards iff it returned
Constructed(name, r, k, d, rw) ==
    /\ ent' = r.obj
    /\ prev' = NoEntity
    /\ op' = Op(name, "")
    /\ kw' = k
    /\ val' = None
    /\ raw' = rw
    /\ res' = IF r.ok THEN Returned ELSE Threw(r.e)
    /\ as_dict' = d
    /\ out' = EmptyMap
    /\ UNCHANGED svars

\* a setter call: the field is assigned iff the setter returned
Assigned(field, r, v, rw) ==
    /\ ent' = IF r.ok THEN [ent EXCEPT !.f[field] = r.v] ELSE ent
    /\ prev' = ent
    /\ op' = Op("set", field)
    /\ kw' = EmptyMap
    /\ val' = v
    /\ raw' = rw
    /\ res' = IF r.ok THEN [ok |-> TRUE, e |-> "", via |-> r.via] ELSE Threw(r.e)
    /\ as_dict' = EmptyMap
    /\ out' = EmptyMap
    /\ UNCHANGED svars

NewAnnotationPoint ==
    /\ op.name = ""
    /\ \E k \in AnnotationPoint_KwInputs :
           Constructed("__init__", AnnotationPoint_init(k), k, EmptyMap, NoRaw)

AnnotationPointFromDict ==
    /\ op.name = ""
    /\ \E d \in AnnotationPoint_DictMaps :
           Constructed("from_dict", AnnotationPoint_from_dict(d), d,
                       Popped(d, AnnotationPoint_ExternalKeys), NoRaw)

SetAnnotationPoint ==
    /\ ent.cls = "AnnotationPoint"
    /\ \E field \in DOMAIN AnnotationPoint_Inputs :
           \E v \in AnnotationPoint_Inputs[field] :
               Assigned(field, AnnotationPoint_setter(field, v), v, NoRaw)

NewScreenReaderSection ==
    /\ op.name = ""
    /\ \E k \in ScreenReaderSection_KwInputs :
           Constructed("__init__", ScreenReaderSection_init(k), k, EmptyMap, NoRaw)

ScreenReaderSectionFromDict ==
    /\ op.name = ""
    /\ \E d \in ScreenReaderSection_DictMaps :
           Constructed("from_dict", ScreenReaderSection_from_dict(d), d,
                       Popped(d, ScreenReaderSection_ExternalKeys), NoRaw)

SetScreenReaderSection ==
    /\ ent.cls = "ScreenReaderSection"
    /\ \E field \in DOMAIN ScreenReaderSection_Inputs :
           \E v \in ScreenReaderSection_Inputs[field] :
               Assigned(field, ScreenReaderSection_setter(field, v), v, NoRaw)

NewBarData ==
    /\ op.name = ""
    /\ \E k \in BarData_KwInputs :
           Constructed("__init__", BarData_init(k), k, EmptyMap, NoRaw)

SetBarData ==
    /\ ent.cls = "BarData"
    /\ \E field \in {"border_color", "border_width", "dash_style", "point_width"} :
           \E v \in BarData_Inputs[field] :
               Assigned(field, BarData_setter(field, v), v, NoRaw)

\* XRangeData(**kwargs)
NewXRangeData ==
    /\ op.name = ""
    /\ \E k \in MapsOver(XRangeData_Inputs) :
           Constructed("__init__", XRangeData_init(k), k, EmptyMap, NoRaw)

SetXRangeData ==
    /\ ent.cls = "XRangeData"
    /\ \E field \in {"x", "x2"} :
           \E v \in XRangeData_Inputs[field] :
               Assigned(field, XRangeData_setter(field, v), v, NoRaw)

\* WaterfallData(**kwargs)
NewWaterfallData ==
    /\ op.name = ""
    /\ \E k \in MapsOver(WaterfallData_Inputs) :
           Constructed("__init__", WaterfallData_init(k), k, EmptyMap, NoRaw)

SetWaterfallData ==
    /\ ent.cls = "WaterfallData"
    /\ \E field \in DOMAIN WaterfallData_Inputs :
           \E v \in WaterfallData_Inputs[field] :
               Assigned(field, WaterfallData_setter(field, v), v, NoRaw)

\* a series built from keywords, 'data' one of them when given
NewSeries ==
    /\ op.name = ""
    /\ \E cls \in SeriesClasses, k \in Series_KwInputs :
           \E data \in RawInputs[cls] :
               /\ Cardinality(DOMAIN k) + (IF RawFalsy(data) THEN 0 ELSE 1) <= MaxKeys
               /\ Constructed("__init__", mro_init(cls, k, data), k, EmptyMap, data)

SeriesFromDict ==
    /\ op.name = ""
    /\ \E cls \in SeriesClasses, d \in Series_DictMaps :
           Constructed("from_dict", Series_from_dict(cls, d, RawSingle(ElemVal(None))),
                       d, Popped(d, Series_RecognizedKeys(cls) \cup {"data"}), NoRaw)

\* an option of a series that holds no data yet is assigned
SetSeriesOption ==
    /\ IsSeries(ent)
    /\ ent.f["data"] = None
    /\ \E field \in {"point_start", "point_interval"} :
           \E v \in Series_Inputs[field] :
               Assigned(field, Series_option_setter(field, v), v, NoRaw)

\* series.data = value: any collection the first time, and one of
\* Alternatives once data has been assigned
SetSeriesData ==
    /\ IsSeries(ent)
    /\ \E value \in IF ent.f["data"] = None /\ op.field # "data"
                     THEN RawInputs[ent.cls] ELSE Alternatives[ent.cls] :
           Assigned("data", Series_data_setter(ent.cls, value), None, value)

\* DependencyWheelSeries(**kwargs), 'data' one of the keywords when given
NewDependencyWheelSeries ==
    /\ op.name = ""
    /\ \E k \in DependencyWheelSeries_KwInputs, provided \in BOOLEAN :
           \E data \in {RawSingle(ElemVal(None)), RawList(<<ElemObj(AConnection)>>)} :
               Constructed("__init__", DependencyWheelSeries_init(k, data, provided),
                           k, EmptyMap, data)

\* series.nodes = value, series.start_angle = value
SetDependencyWheelOption ==
    /\ ent.cls = "DependencyWheelSeries"
    /\ \E field \in DOMAIN DependencyWheelSeries_Inputs :
           \E v \in DependencyWheelSeries_Inputs[field] :
               Assigned(field,
                        IF field = "nodes" THEN DependencyWheelSeries_nodes_setter(v)
                        ELSE DependencyWheelSeries_start_angle_setter(v),
                        v, NoRaw)

\* series.data = value
SetDependencyWheelData ==
    /\ ent.cls = "DependencyWheelSeries"
    /\ \E value \in DependencyWheelSeries_DataInputs :
           Assigned("data", DependencyWheelSeries_data_setter(value), None, value)

\* to_dict() (to_json() for ScreenReaderSection)
Export ==
    /\ ent # NoEntity
    /\ op.name # "to_dict"
    /\ out' = to_dict(ent)
    /\ op' = Op("to_dict", "")
    /\ res' = Returned
    /\ prev' = NoEntity
    /\ kw' = EmptyMap
    /\ val' = None
    /\ raw' = NoRaw
    /\ as_dict' = EmptyMap
    /\ UNCHANGED ent
    /\ UNCHANGED svars

\* from_dict of the dictionary just exported
RoundTrip ==
    /\ op.name = "to_dict"
    /\ ent.cls \notin {"BarData", "XRangeData", "WaterfallData",
                      "DependencyWheelSeries"}
    /\ LET data == IF IsSeries(ent) THEN ExportedData(ent) ELSE NoRaw
           r == from_dict(ent.cls, out, data)
       IN  /\ ent' = IF r.ok THEN r.obj ELSE ent
           /\ prev' = ent
           /\ op' = Op("round_trip", "")
           /\ res' = IF r.ok THEN Returned ELSE Threw(r.e)
           /\ out' = EmptyMap
           /\ UNCHANGED <<kw, val, raw, as_dict>>
    /\ UNCHANGED svars

Next ==
    \/ NewAnnotationPoint
    \/ AnnotationPointFromDict
    \/ SetAnnotationPoint
    \/ NewScreenReaderSection
    \/ ScreenReaderSectionFromDict
    \/ SetScreenReaderSection
    \/ NewBarData
    \/ NewXRangeData
    \/ SetXRangeData
    \/ NewWaterfallData
    \/ SetWaterfallData
    \/ SetBarData
    \/ NewSeries
    \/ SeriesFromDict
    \/ SetSeriesOption
    \/ SetSeriesData
    \/ NewDependencyWheelSeries
    \/ SetDependencyWheelOption
    \/ SetDependencyWheelData
    \/ Export
    \/ RoundTrip

Spec == Init /\ [][Next]_vars

(***************************************************************************)
(* The state machine of two series and the point instances they hold       *)
(***************************************************************************)
\* two series of the data classes, constructed without data
SharedInit ==
    /\ ent = NoEntity
    /\ prev = NoEntity
    /\ op = Op("", "")
    /\ kw = EmptyMap
    /\ val = None
    /\ raw = NoRaw
    /\ res = Returned
    /\ as_dict = EmptyMap
    /\ out = EmptyMap
    /\ heap = <<>>
    /\ owner \in [SeriesNames -> {[cls |-> c, data |-> <<>>] : c \in DataClasses}]
    /\ touch = NoTouch

\* p = WindBarbData(**kwargs) or XRangeData(**kwargs)
NewPoint ==
    /\ Len(heap) < MaxPoints
    /\ \E cls \in {"WindBarbData", "XRangeData"} :
           \E k \in PointKwInputs(cls) :
               /\ Point_init(cls, k).ok
               /\ touch' = Touch("new", "", TRUE)
               /\ heap' = Append(heap, Point_init(cls, k).obj)
    /\ UNCHANGED owner
    /\ UNCHANGED evars

\* series.data = [p, ...], a list of pre-built instances: from_setter keeps
\* each instance of the point class as it is (as_obj = item), so the slot
\* refers to the instance it was given
AssignInstances ==
    /\ \E s \in SeriesNames :
           \E ids \in SeqsUpTo(DOMAIN heap, MaxData) \ {<<>>} :
               LET value == RawList([i \in DOMAIN ids |-> ElemObj(heap[ids[i]])])
                   r == Series_data_setter(owner[s].cls, value)
               IN  /\ owner' = IF r.ok THEN [owner EXCEPT ![s].data = ids]
                                ELSE owner
                   /\ touch' = Touch("assign", s, r.ok)
    /\ UNCHANGED heap
    /\ UNCHANGED evars

\* series.data[i].field = value
SetPointField ==
    /\ \E s \in SeriesNames :
           \E i \in DOMAIN owner[s].data :
               LET id == owner[s].data[i]
                   cls == heap[id].cls
               IN  \E field \in DOMAIN PointFieldInputs(cls) :
                       \E v \in PointFieldInputs(cls)[field] :
                           /\ heap' = IF Point_setter(cls, field, v).ok
                                      THEN [heap EXCEPT ![id].f[field] =
                                                Point_setter(cls, field, v).v]
                                      ELSE heap
                           /\ touch' = Touch("set", s, Point_setter(cls, field, v).ok)
    /\ UNCHANGED owner
    /\ UNCHANGED evars

SharedNext ==
    \/ NewPoint
    \/ AssignInstances
    \/ SetPointField

SharedSpec == SharedInit /\ [][SharedNext]_vars

(***************************************************************************)
(* Properties                                                              *)
(***************************************************************************)
\* the external (camelCase) name of each field
ExternalName ==
    [x |-> "x", x_axis |-> "xAxis", y |-> "y", y_axis |-> "yAxis",
     after_chart_format       |-> "afterChartFormat",
     after_chart_formatter    |-> "afterChartFormatter",
     axis_range_date_format   |-> "axisRangeDateFormat",
     before_chart_format      |-> "beforeChartFormat",
     before_chart_formatter   |-> "beforeChartFormatter",
     on_play_as_sound_click   |-> "onPlayAsSoundClick",
     on_view_data_table_click |-> "onViewDataTableClick",
     name |-> "name", border_color |-> "borderColor",
     border_width |-> "borderWidth", dash_style |-> "dashStyle",
     point_width |-> "pointWidth", line_width |-> "lineWidth",
     point_interval |-> "pointInterval", point_start |-> "pointStart",
     point_range |-> "pointRange", fill_opacity |-> "fillOpacity",
     x2 |-> "x2", partial_fill |-> "partialFill",
     is_sum |-> "isSum", is_intermediate_sum |-> "isIntermediateSum"]

\* the dictionary keys by which border_color recognizes a variant
VariantKeys ==
    {"linearGradient", "linear_gradient", "patternOptions", "pattern_options"}

\* C1: assigning to BarData.border_color a dictionary with a
\* 'linearGradient' key stores a Gradient, assigning the plain colour string
\* '#ffffff' stores that string, and assigning a (non-empty) dictionary whose
\* keys match no variant raises.
C1_UnionResolution ==
    op = Op("set", "border_color") =>
        /\ (val.t = "dict" /\ "linearGradient" \in val.k)
               => (res.ok /\ ent.f["border_color"] = Gradient)
        /\ val = PyStr("#ffffff")
               => (res.ok /\ ent.f["border_color"] = val)
        /\ (val.t = "dict" /\ val.k # {} /\ val.k \cap VariantKeys = {})
               => ~res.ok

\* the fields of self that an export has a key for (data is exported by
\* the points' own to_dict)
ExportedFields(self) == (DOMAIN self.f) \ {"data"}

\* C2: the exported dictionary of every entity holds exactly the external
\* keys of the fields that are not unset (a value, or the forced default).
C2_TrimLaw ==
    op.name = "to_dict" =>
        DOMAIN out = {ExternalName[field] :
                         field \in {g \in ExportedFields(ent) : ent.f[g] # None}}

\* C3: deserializing the exported dictionary of an entity reconstructs an
\* entity equal to it in all fields.
C3_RoundTrip ==
    op.name = "round_trip" => (res.ok /\ ent = prev)

\* C4: an entity built with a nullable field explicitly None exports that
\* field's key with the value null, and an entity built without the keyword
\* (the field's default being None) exports no such key.
C4_SentinelDistinction ==
    (/\ op.name = "__init__"
     /\ res.ok
     /\ ent.cls \in {"AnnotationPoint", "ScreenReaderSection"}) =>
        \A field \in DOMAIN ent.f :
            LET key == ExternalName[field]
                exported == to_dict(ent)
            IN  /\ (field \in DOMAIN kw /\ kw[field] = None)
                       => (key \in DOMAIN exported /\ exported[key] = None)
                /\ (field \notin DOMAIN kw /\ ent.f[field] = None)
                       => key \notin DOMAIN exported

\* C5: a construction from keywords that returns an entity was given only
\* keywords that are declared fields: an unknown keyword is an error.
C5_UnknownKeywordRejected ==
    (op.name = "__init__" /\ "unknown_key" \in DOMAIN kw) => ~res.ok

\* the values the setter of field has to refuse
Refused(field, v) ==
    CASE field \in {"x_axis", "y_axis"} -> v.t \notin {"None", "int", "str"}
      [] field = "border_color" ->
             \/ v.t \notin {"None", "str", "dict", "Gradient", "Pattern"}
             \/ v.t = "dict" /\ v.k # {} /\ v.k \cap VariantKeys = {}
      [] field = "border_width" ->
             \/ v.t = "int" /\ v.n < 0
             \/ v.t = "str" /\ v.s # "" /\ v.s \notin DOMAIN NumericStrings
      [] field = "dash_style" ->
             Truthy(v) /\ (v.t # "str" \/ v.s \notin SUPPORTED_DASH_STYLE_VALUES)
      [] OTHER -> FALSE

\* the collections every data setter has to refuse: a list with a sequence
\* element of length 1
RefusedData(value) ==
    /\ ~value.single
    /\ \E i \in DOMAIN value.items :
           value.items[i].kind = "seq" /\ Len(value.items[i].q) = 1

\* C6: a setter given a value it has to refuse raises at that call, and a
\* setter that raises leaves the entity as it was before the call: the field
\* keeps its previous value.
C6_AtomicErrors ==
    op.name = "set" =>
        /\ ~res.ok => ent = prev
        /\ (\/ op.field # "data" /\ Refused(op.field, val)
            \/ op.field = "data" /\ RefusedData(raw))
               => (~res.ok /\ ent = prev)

\* a refused dash style is raised for, and the style assigned before stays
C6_Witness ==
    /\ op = Op("set", "dash_style")
    /\ val = PyStr("Wavy")
    /\ ~res.ok
    /\ prev.f["dash_style"] = PyStr("Dash")
    /\ ent.f["dash_style"] = PyStr("Dash")

\* C7: every field of an AnnotationPoint holds None or a validated value of
\* its type, whatever was passed: x and y None or a number, x_axis and
\* y_axis None, an integer or a non-empty string; every field of a
\* ScreenReaderSection holds None or a string.
C7_FieldStates ==
    /\ ent.cls = "AnnotationPoint" =>
           /\ \A field \in {"x", "y"} : ent.f[field].t \in {"None", "int"}
           /\ \A field \in {"x_axis", "y_axis"} :
                  \/ ent.f[field].t \in {"None", "int"}
                  \/ ent.f[field].t = "str" /\ ent.f[field].s # ""
    /\ ent.cls = "ScreenReaderSection" =>
           \A field \in DOMAIN ent.f : ent.f[field].t \in {"None", "str"}

\* the text '5' assigned to x is held as the number 5
C7_Witness ==
    /\ ent.cls = "AnnotationPoint"
    /\ op = Op("set", "x")
    /\ val = PyStr("5")
    /\ ent.f["x"] = PyInt(5)

\* C8: WindBarbData.from_setter makes of a sequence element of length 3 the
\* point (x, value, direction) with y None, of one of length 4 the point
\* (x, value, direction, y), and raises for a sequence of any other length.
C8_TupleDestructuring ==
    (/\ op = Op("set", "data")
     /\ prev.cls = "WindBarbSeries"
     /\ ~raw.single) =>
        /\ (\E i \in DOMAIN raw.items :
               raw.items[i].kind = "seq" /\ Len(raw.items[i].q) \notin {3, 4})
               => ~res.ok
        /\ (res.ok /\ raw.items # <<>>) =>
               \A i \in DOMAIN raw.items :
                   raw.items[i].kind = "seq" =>
                       LET q == raw.items[i].q
                           point == ent.f["data"].items[i]
                       IN  /\ point.cls = "WindBarbData"
                           /\ point.f["x"] = CartesianData_x_setter(q[1]).v
                           /\ point.f["value"] = WindBarbData_value_setter(q[2]).v
                           /\ point.f["direction"]
                                  = WindBarbData_direction_setter(q[3]).v
                           /\ point.f["y"] = IF Len(q) = 4
                                             THEN CartesianData_y_setter(q[4]).v
                                             ELSE None

\* a sequence of length 3 and one of length 4 were both made points
C8_Witness ==
    /\ op = Op("set", "data")
    /\ ent.cls = "WindBarbSeries"
    /\ res.ok
    /\ raw = RawList(<<ElemSeq(TupleOf(3)), ElemSeq(TupleOf(4))>>)
    /\ ent.f["data"].items[1].f["value"] = PyInt(2)
    /\ ent.f["data"].items[1].f["y"] = None
    /\ ent.f["data"].items[2].f["y"] = PyInt(4)

\* whether the element of a raw collection is a null marker
IsNullMarker(e) == e.kind = "val" /\ e.v \in {None, EnforcedNull}

\* C9: a null or enforced-null element of the collection assigned to the
\* data of a wind-barb or x-range series yields, at the same slot, an
\* instance of the point type whose fields are all None; no slot is skipped.
C9_NullSlot ==
    (/\ op = Op("set", "data")
     /\ res.ok
     /\ ent.cls \in {"WindBarbSeries", "XRangeSeries"}
     /\ ~raw.single
     /\ raw.items # <<>>) =>
        /\ Len(ent.f["data"].items) = Len(raw.items)
        /\ \A i \in DOMAIN raw.items :
               IsNullMarker(raw.items[i]) =>
                   LET point == ent.f["data"].items[i]
                   IN  /\ point.cls = PointClass(ent.cls)
                       /\ \A field \in DOMAIN point.f : point.f[field] = None

\* C10: a list of bare numbers assigned to the data of a bar series yields
\* as many points, the number at position i (from 0) as y and
\* x = start + i * interval, start and interval being the series'
\* point_start and point_interval (0 and 1 when those are None).
C10_AutoX ==
    (/\ op = Op("set", "data")
     /\ res.ok
     /\ ent.cls = "BarSeries"
     /\ ~raw.single
     /\ raw.items # <<>>
     /\ \A i \in DOMAIN raw.items :
            raw.items[i].kind = "val" /\ raw.items[i].v.t = "int") =>
        LET start == IF ent.f["point_start"] = None THEN 0
                     ELSE ent.f["point_start"].n
            interval == IF ent.f["point_interval"] = None THEN 1
                        ELSE ent.f["point_interval"].n
            points == ent.f["data"].items
        IN  /\ Len(points) = Len(raw.items)
            /\ \A i \in DOMAIN points :
                   /\ points[i].f["y"] = raw.items[i].v
                   /\ points[i].f["x"] = PyInt(start + (i - 1) * interval)

\* whether the element of a raw collection is a bare scalar
IsScalar(e) == e.kind = "val" /\ e.v \notin {None, EnforcedNull}

\* a data assignment to a wind-barb or x-range series whose collection is
\* not falsy and holds a bare scalar element
ScalarAssigned ==
    /\ op = Op("set", "data")
    /\ prev.cls \in {"WindBarbSeries", "XRangeSeries"}
    /\ ~RawFalsy(raw)
    /\ \E i \in DOMAIN RawItems(raw) : IsScalar(RawItems(raw)[i])

\* C11 (as stated): a bare scalar element of the collection assigned to the
\* data of a wind-barb or x-range series is accepted, and a point is made of
\* it.
C11_ScalarAccepted == ScalarAssigned => res.ok

\* C11 (amended): WindBarbData.from_setter and XRangeData.from_setter refuse
\* a bare scalar element: the assignment raises HighchartsValueError and the
\* series keeps the data it had.
C11_ScalarRefused ==
    ScalarAssigned => (~res.ok /\ res.e = "HighchartsValueError" /\ ent = prev)

\* the list [5] assigned to the data of an x-range series was refused
C11_Witness ==
    /\ op = Op("set", "data")
    /\ prev.cls = "XRangeSeries"
    /\ raw = RawList(<<ElemVal(PyInt(5))>>)
    /\ ~res.ok
    /\ ent.f["data"] = None

\* a dictionary carrying a variant's key in both forms was assigned to
\* border_color
BothFormsAssigned ==
    /\ op = Op("set", "border_color")
    /\ val \in {PyDict({"linearGradient", "linear_gradient"}),
                PyDict({"patternOptions", "pattern_options"})}

\* C12 (as stated): a dictionary carrying both the internal and the external
\* key of a variant is decoded by the internal-form decoder, the variant's
\* constructor.
C12_InternalFirst ==
    BothFormsAssigned =>
        (res.ok /\ res.via \in {"Gradient.__init__", "Pattern.__init__"})

\* C12 (amended): the external key is tested first: a dictionary carrying
\* both keys of a variant is decoded by the external-form decoder
\* (from_json, then from_dict), and the constructor decodes only a
\* dictionary that carries the internal key without the external one.
C12_ExternalFirst ==
    (op = Op("set", "border_color") /\ val.t = "dict" /\ res.ok /\ Truthy(val)) =>
        /\ "linearGradient" \in val.k => res.via = "Gradient.from_dict"
        /\ res.via = "Gradient.__init__" <=>
               ("linear_gradient" \in val.k /\ "linearGradient" \notin val.k)
        /\ ("patternOptions" \in val.k
            /\ val.k \cap {"linearGradient", "linear_gradient"} = {})
               => res.via = "Pattern.from_dict"
        /\ res.via = "Pattern.__init__" <=>
               ("pattern_options" \in val.k
                /\ val.k \cap {"linearGradient", "linear_gradient", "patternOptions"} = {})

\* a dictionary with both gradient keys was decoded by Gradient.from_dict
C12_Witness ==
    /\ op = Op("set", "border_color")
    /\ val = PyDict({"linearGradient", "linear_gradient"})
    /\ res.ok /\ res.via = "Gradient.from_dict"
    /\ ent.f["border_color"] = Gradient

\* C13: deserialization leaves the dictionary it was passed unchanged, so
\* that deserializing the same dictionary object a second time gives an
\* entity equal to the first.
C13_DictionaryUnchanged ==
    (op.name = "from_dict" /\ res.ok) =>
        /\ as_dict = kw
        /\ from_dict(ent.cls, as_dict, RawSingle(ElemVal(None))).obj = ent

\* C14: from_setter run a second time on the same raw collection yields
\* points with the same field values, in the same order, as the first run.
C14_Repeatable ==
    (op = Op("set", "data") /\ res.ok /\ ~RawFalsy(raw)
     /\ prev.cls \in {"WindBarbSeries", "XRangeSeries"}) =>
        LET again == from_setter(prev.cls, Consumed(prev.cls, raw))
        IN  again.ok /\ again.items = ent.f["data"].items

\* C15: after the same point instance was assigned to the data of two
\* series, changing a field of the point reached through one series leaves
\* the data of the other series as it read before.
C15_NoSharedState ==
    (touch.name = "set" /\ touch.ok) =>
        \A s \in SeriesNames \ {touch.series} : View(s) = touch.before[s]

\* the keywords a dictionary of external keys stands for: each known key
\* present, under its field's name
AsKeywords(fields, d) ==
    [field \in {g \in Range(fields) : ExternalName[g] \in DOMAIN d} |->
         d[ExternalName[field]]]

\* C16: ScreenReaderSection.from_dict gives what keyword construction gives
\* from the keys present, an absent key taking the default the constructor
\* takes for an absent keyword: the empty dictionary gives the entity that
\* construction without keywords gives, and from_dict raises exactly when
\* the construction does.
C16_FromDictDefaults ==
    LET same == ScreenReaderSection_init(
                    AsKeywords(ScreenReaderSection_Fields, kw))
    IN  /\ (op.name = "from_dict" /\ ent.cls = "ScreenReaderSection") =>
               (res.ok /\ same.ok /\ ent = same.obj)
        /\ (op.name = "from_dict" /\ ~res.ok
            /\ DOMAIN kw \cap ScreenReaderSection_ExternalKeys # {}) =>
               ~same.ok

\* from_dict of a dictionary with one known key returned: the key's field
\* holds the value and an absent key's field the constructor's default
C16_Witness ==
    /\ op.name = "from_dict"
    /\ kw = [afterChartFormatter |-> PyStr("function(chart){}")]
    /\ res.ok
    /\ ent.cls = "ScreenReaderSection"
    /\ ent.f["after_chart_formatter"] = PyStr("function(chart){}")
    /\ ent.f["after_chart_format"] = DEFAULT_AFTER_CHART_FORMAT
    /\ ent = ScreenReaderSection_init(
                 [after_chart_formatter |-> PyStr("function(chart){}")]).obj

\* C17: a series deserialized from a dictionary without 'lineWidth' is
\* passed its own class's default (2 for WindBarbSeries, None for BarSeries),
\* and one deserialized from a dictionary with the key is passed the key's
\* value, whichever the defaults.
C17_ChildDefault ==
    (op.name = "from_dict" /\ res.ok /\ IsSeries(ent)) =>
        LET passed == Series_get_kwargs_from_dict(ent.cls, kw)["line_width"]
        IN  /\ ent.f["line_width"] = Series_line_width_setter(passed).v
            /\ passed = IF "lineWidth" \in DOMAIN kw THEN kw["lineWidth"]
                        ELSE IF ent.cls = "WindBarbSeries" THEN PyInt(2)
                        ELSE None

\* a wind-barb series deserialized without 'lineWidth' holds line width 2
C17_Witness ==
    /\ op.name = "from_dict"
    /\ res.ok
    /\ ent.cls = "WindBarbSeries"
    /\ "lineWidth" \notin DOMAIN kw
    /\ ent.f["line_width"] = PyInt(2)

\* the external keys a point type's own to_dict block names
OwnKeys(cls) ==
    CASE cls = "BarData" -> {"borderColor", "borderWidth", "dashStyle", "pointWidth"}
      [] cls = "WindBarbData" -> {"direction", "value"}
      [] cls = "XRangeData"   -> {"partialFill", "x2"}

\* the external keys the parent's to_dict exports
ParentKeys == {"x", "y", "name"}

\* the field an external key of a point exports
PointField ==
    [x |-> "x", y |-> "y", name |-> "name", borderColor |-> "border_color",
     borderWidth |-> "border_width", dashStyle |-> "dash_style",
     pointWidth |-> "point_width", direction |-> "direction",
     value |-> "value", partialFill |-> "partial_fill", x2 |-> "x2"]

\* d is the trimmed union of the own and the parent's keys of point p
TrimmedUnion(p, d) ==
    /\ DOMAIN d = {key \in OwnKeys(p.cls) \cup ParentKeys :
                       p.f[PointField[key]] # None}
    /\ \A key \in DOMAIN d : d[key] = p.f[PointField[key]]

\* C18: a point's to_dict returns the trimmed union of its own keys and the
\* keys its parent exports, and a key that the own block and the parent's
\* export both give keeps the parent's exported value.
C18_ExportMerge ==
    /\ (op.name = "to_dict" /\ ent.cls = "BarData") => TrimmedUnion(ent, out)
    /\ (IsSeries(ent) /\ ent.f["data"] # None) =>
           \A i \in DOMAIN ent.f["data"].items :
               LET p == ent.f["data"].items[i]
               IN  p # NoneSlot => TrimmedUnion(p, Point_to_dict(p))
    /\ ent.cls = "BarData" =>
           LET parent_as_dict == CartesianData_to_dict(ent)
               colliding == [key \in ParentKeys |-> PyStr("own")]
           IN  \A key \in DOMAIN parent_as_dict :
                   MergeParent(colliding, parent_as_dict)[key] = parent_as_dict[key]

\* a bar point with an x and a border width was exported: the dictionary
\* holds the parent's key and the own key
C18_Witness ==
    /\ op.name = "to_dict"
    /\ ent.cls = "BarData"
    /\ ent.f["x"] = PyInt(1)
    /\ ent.f["border_width"] = PyInt(2)
    /\ out = [x |-> PyInt(1), borderWidth |-> PyInt(2)]

\* C19: a bar-family series deserialized from a dictionary without
\* 'pointRange' is passed the enforced-null sentinel as point_range and
\* holds it, and the export of a series whose point_range is the sentinel
\* carries the key 'pointRange' with the sentinel.
C19_ForcedPointRange ==
    /\ (op.name = "from_dict" /\ res.ok /\ IsSeries(ent)
        /\ "pointRange" \notin DOMAIN kw) =>
           /\ Series_get_kwargs_from_dict(ent.cls, kw)["point_range"] = EnforcedNull
           /\ ent.f["point_range"] = EnforcedNull
           /\ "pointRange" \in DOMAIN to_dict(ent)
    /\ (op.name = "to_dict" /\ IsSeries(ent)
        /\ ent.f["point_range"] = EnforcedNull) =>
           ("pointRange" \in DOMAIN out /\ out["pointRange"] = EnforcedNull)

\* a bar series deserialized without 'pointRange' was exported with the key
C19_Witness ==
    /\ op.name = "to_dict"
    /\ ent.cls = "BarSeries"
    /\ ent.f["point_range"] = EnforcedNull
    /\ "pointRange" \in DOMAIN out
    /\ out["pointRange"] = EnforcedNull

HoldsData(e) == IsSeries(e) \/ e.cls = "DependencyWheelSeries"

C22_AxisReference ==
    (op.name = "set" /\ op.field \in {"x_axis", "y_axis"}) =>
        LET stored == ent.f[op.field]
        IN  IF val \in {None, PyStr("")} THEN res.ok /\ stored = None
            ELSE IF val.t = "int" THEN res.ok /\ stored = val
            ELSE IF val.t = "str" /\ val.s \in DOMAIN NumericStrings
            THEN res.ok /\ stored = PyInt(NumericStrings[val.s])
            ELSE IF val.t = "str" THEN res.ok /\ stored = val
            ELSE /\ ~res.ok
                 /\ res.e = "HighchartsValueError"
                 /\ ent = prev

\* the string '1' was assigned to x_axis and the integer 1 is stored
C22_Witness ==
    /\ op = Op("set", "x_axis")
    /\ val = PyStr("1")
    /\ res.ok
    /\ ent.f["x_axis"] = PyInt(1)

\* the two format fields of a screen reader section
FormatFields == {"after_chart_format", "before_chart_format"}

\* C23: after_chart_format and before_chart_format are always None, the
\* empty string or a non-empty string; an assignment of None stores None, of
\* any other falsy value stores the empty string, of a non-empty string
\* stores that string, and of anything else raises and leaves the field as
\* it was.
C23_EmptyStringPolicy ==
    /\ ent.cls = "ScreenReaderSection" =>
           \A field \in FormatFields :
               ent.f[field] = None \/ ent.f[field].t = "str"
    /\ (ent.cls = "ScreenReaderSection" /\ op.name = "set"
        /\ op.field \in FormatFields) =>
           LET stored == ent.f[op.field]
           IN  IF val = None THEN res.ok /\ stored = None
               ELSE IF ~Truthy(val)
               THEN res.ok /\ stored = PyStr("") /\ stored # None
                    /\ stored # ScreenReaderSection_init_default[op.field]
               ELSE IF val.t = "str" THEN res.ok /\ stored = val /\ val.s # ""
               ELSE ~res.ok /\ ent = prev

\* 0 was assigned to after_chart_format and the empty string is stored
C23_Witness ==
    /\ ent.cls = "ScreenReaderSection"
    /\ op = Op("set", "after_chart_format")
    /\ val = PyInt(0)
    /\ res.ok
    /\ ent.f["after_chart_format"] = PyStr("")

\* whether from_setter of XRangeData takes the element: an XRangeData
\* instance, a dictionary or a null marker
XRangeAccepts(e) ==
    \/ e.kind = "obj" /\ e.obj.cls = "XRangeData"
    \/ e.kind = "dict"
    \/ e.kind = "val" /\ e.v \in {None, EnforcedNull}

\* C24: a data assignment to an x-range series returns only if every
\* element is an XRangeData instance, a dictionary or a null marker; an
\* element that is a sequence, of any length, or a bare scalar makes it
\* raise HighchartsValueError for that element and leaves the data as it
\* was; and one value that is no collection is taken as a collection of one.
C24_XRangeElements ==
    (op = Op("set", "data") /\ prev.cls = "XRangeSeries" /\ ~RawFalsy(raw)) =>
        LET items == RawItems(raw)
        IN  /\ res.ok => \A i \in DOMAIN items : XRangeAccepts(items[i])
            /\ (\E i \in DOMAIN items : ~XRangeAccepts(items[i])) =>
                   (~res.ok /\ ent = prev)
            /\ (\E i \in DOMAIN items :
                    /\ ~XRangeAccepts(items[i])
                    /\ \A j \in 1..(i - 1) : items[j].kind # "dict") =>
                   res.e = "HighchartsValueError"
            /\ (raw.single /\ raw.items[1].kind \in {"obj", "val"} /\ res.ok) =>
                   Len(ent.f["data"].items) = 1

\* a list holding one sequence of three values was refused by an x-range
\* series
C24_Witness ==
    /\ op = Op("set", "data")
    /\ prev.cls = "XRangeSeries"
    /\ raw = RawList(<<ElemSeq(TupleOf(3))>>)
    /\ ~res.ok
    /\ res.e = "HighchartsValueError"
    /\ ent = prev

\* C25: border_width of a bar point is always None or a number that is not
\* negative; a negative number is refused, by the constructor and by the
\* setter, which leaves the field as it was; None stores None and a number
\* that is not negative, 0 included, stores that number.
C25_BorderWidthNotNegative ==
    /\ ent.cls = "BarData" =>
           \/ ent.f["border_width"] = None
           \/ ent.f["border_width"].t = "int" /\ ent.f["border_width"].n >= 0
    /\ (op.name = "__init__" /\ "border_width" \in DOMAIN kw
        /\ kw["border_width"].t = "int" /\ kw["border_width"].n < 0) => ~res.ok
    /\ (op = Op("set", "border_width") /\ val.t = "int") =>
           IF val.n < 0 THEN ~res.ok /\ res.e = "ValueError" /\ ent = prev
           ELSE res.ok /\ ent.f["border_width"] = val
    /\ (op = Op("set", "border_width") /\ val = None) =>
           (res.ok /\ ent.f["border_width"] = None)

\* -1 was assigned to the border width 2 of a bar point and refused
C25_Witness ==
    /\ op = Op("set", "border_width")
    /\ val = PyInt(-1)
    /\ ~res.ok
    /\ ent.f["border_width"] = PyInt(2)

\* C26: dash_style of a bar point is always None or one of the supported
\* dash styles; an assignment of a falsy value stores None, of a supported
\* style stores it unchanged, of any other string raises
\* HighchartsValueError, of a truthy value that is no string raises the
\* string validator's error, and no refused assignment changes the field.
C26_DashStyle ==
    /\ ent.cls = "BarData" =>
           \/ ent.f["dash_style"] = None
           \/ /\ ent.f["dash_style"].t = "str"
              /\ ent.f["dash_style"].s \in SUPPORTED_DASH_STYLE_VALUES
    /\ op = Op("set", "dash_style") =>
           IF ~Truthy(val) THEN res.ok /\ ent.f["dash_style"] = None
           ELSE IF val.t = "str" /\ val.s \in SUPPORTED_DASH_STYLE_VALUES
           THEN res.ok /\ ent.f["dash_style"] = val
           ELSE IF val.t = "str"
           THEN ~res.ok /\ res.e = "HighchartsValueError" /\ ent = prev
           ELSE ~res.ok /\ res.e = "ValueError" /\ ent = prev

\* 'Wavy' was assigned to the dash style 'Dash' of a bar point and refused
C26_Witness ==
    /\ op = Op("set", "dash_style")
    /\ val = PyStr("Wavy")
    /\ ~res.ok
    /\ res.e = "HighchartsValueError"
    /\ ent.f["dash_style"] = PyStr("Dash")

\* C26 as stated: every refused dash_style assignment raises
\* HighchartsValueError
C26_AlwaysHighchartsValueError ==
    (op = Op("set", "dash_style") /\ ~res.ok) => res.e = "HighchartsValueError"

\* C27: every key that the parent's _get_kwargs_from_dict recognizes is
\* recognized by the subclass's: a series deserialized from a dictionary
\* that has a key of the area family consumes the key and holds its value,
\* so that deserializing an export returns every inherited field.
C27_ParentKeysCovered ==
    /\ (op.name = "from_dict" /\ IsSeries(ent) /\ res.ok /\ "fillOpacity" \in DOMAIN kw) =>
           /\ "fillOpacity" \notin DOMAIN as_dict
           /\ "fill_opacity" \in DOMAIN Series_get_kwargs_from_dict(ent.cls, kw)
           /\ ent.f["fill_opacity"] = kw["fillOpacity"]
    /\ (op.name = "round_trip" /\ IsSeries(ent) /\ res.ok) =>
           ent.f["fill_opacity"] = prev.f["fill_opacity"]

\* C28: x and x2 of a range point hold None only when None was assigned;
\* assigning 0 stores 0; a datetime is stored as the datetime (the datetime
\* test precedes the date test, which it would pass as well), a date as the
\* date, a number or a numeric string as the number, any other string as
\* the string; anything else is refused and the field keeps its value.
C28_PositionsKept ==
    \A field \in {"x", "x2"} :
        /\ ent.cls = "XRangeData" =>
               ent.f[field].t \in {"None", "datetime", "date", "int", "str"}
        /\ (op = Op("set", field) /\ ent.cls = "XRangeData") =>
               /\ (res.ok /\ ent.f[field] = None) <=> val = None
               /\ val = PyInt(0) => (res.ok /\ ent.f[field] = PyInt(0))
               /\ val.t \in {"datetime", "date", "int"} => (res.ok /\ ent.f[field] = val)
               /\ (val.t = "str" /\ val.s \in DOMAIN NumericStrings) =>
                      (res.ok /\ ent.f[field] = PyInt(NumericStrings[val.s]))
               /\ (val.t = "str" /\ val.s \notin DOMAIN NumericStrings /\ val.s # "") =>
                      (res.ok /\ ent.f[field] = val)
               /\ val.t \notin {"None", "datetime", "date", "int", "str"} =>
                      (~res.ok /\ ent = prev)

\* 0 was assigned to the x of a range point that held 5, and x is 0
C28_Witness ==
    /\ op = Op("set", "x")
    /\ ent.cls = "XRangeData"
    /\ prev.f["x"] = PyInt(5)
    /\ val = PyInt(0)
    /\ res.ok
    /\ ent.f["x"] = PyInt(0)

\* C29: the sum flags of a waterfall point are always None, True or False;
\* assigning None stores None, assigning any other value stores its
\* truthiness, and an assigned False (or any other falsy value that is not
\* None) is stored as False, never as None.
C29_SumFlags ==
    \A field \in {"is_sum", "is_intermediate_sum"} :
        /\ ent.cls = "WaterfallData" =>
               ent.f[field] \in {None, PyBool(TRUE), PyBool(FALSE)}
        /\ (op = Op("set", field) /\ ent.cls = "WaterfallData") =>
               /\ res.ok
               /\ val = None => ent.f[field] = None
               /\ val # None => ent.f[field] = PyBool(Truthy(val))
               /\ val = PyBool(FALSE) => ent.f[field] = PyBool(FALSE)
        /\ (op.name = "__init__" /\ ent.cls = "WaterfallData" /\ field \in DOMAIN kw) =>
               ent.f[field] = IF kw[field] = None THEN None
                              ELSE PyBool(Truthy(kw[field]))

\* False was assigned to is_sum of a waterfall point that held True
C29_Witness ==
    /\ op = Op("set", "is_sum")
    /\ ent.cls = "WaterfallData"
    /\ prev.f["is_sum"] = PyBool(TRUE)
    /\ val = PyBool(FALSE)
    /\ ent.f["is_sum"] = PyBool(FALSE)

\* whether every keyword DependencyWheelSeries was given is one its setter
\* takes
ValidWheelKeywords ==
    /\ DependencyWheelSeries_nodes_setter(Pop(kw, "nodes", None)).ok
    /\ DependencyWheelSeries_start_angle_setter(Pop(kw, "start_angle", None)).ok
    /\ DependencyWheelSeries_data_setter(raw).ok

\* C30: a DependencyWheelSeries given 'nodes' validates it first (a nodes
\* value its setter refuses fails the construction with that setter's
\* error, whatever the other keywords are), a construction with valid
\* keywords completes and holds the nodes and the inherited options, and the
\* untrimmed export is the merged parent export plus the key 'nodes' with
\* the current nodes value.
C30_WheelComposition ==
    /\ (op.name = "__init__" /\ "nodes" \in DOMAIN kw) =>
           /\ ~DependencyWheelSeries_nodes_setter(kw["nodes"]).ok =>
                  (~res.ok /\ res.e = DependencyWheelSeries_nodes_setter(kw["nodes"]).e)
           /\ ValidWheelKeywords =>
                  /\ res.ok
                  /\ ent.cls = "DependencyWheelSeries"
                  /\ ent.f["nodes"] = DependencyWheelSeries_nodes_setter(kw["nodes"]).v
                  /\ ent.f["start_angle"] =
                         DependencyWheelSeries_start_angle_setter(
                             Pop(kw, "start_angle", None)).v
    /\ ent.cls = "DependencyWheelSeries" =>
           /\ DOMAIN DependencyWheelSeries_to_untrimmed_dict(ent) =
                  DOMAIN DependencyWheelSeries_mro_to_dict(ent) \cup {"nodes"}
           /\ DependencyWheelSeries_to_untrimmed_dict(ent)["nodes"] = ent.f["nodes"]
           /\ \A key \in DOMAIN DependencyWheelSeries_mro_to_dict(ent) :
                  DependencyWheelSeries_to_untrimmed_dict(ent)[key] =
                      DependencyWheelSeries_mro_to_dict(ent)[key]

====
